------------------------- MODULE InterventionsProofs -------------------------
(***************************************************************************)
(* Forces are honoured and rescues are sound, for every catalog, every set *)
(* of overlapping turns and replicas, and any number of store failures.    *)
(***************************************************************************)
EXTENDS Interventions, LoopProofs

Orders == {"legacy", "unpin", "preserve", "history", "control"}
LoopPCs == {"loopRead", "loopControl", "loopCount", "loopPin", "loopEvent"}
StrugglePCs == {"struggleRead", "struggleControl", "struggleCount", "strugglePin", "struggleEvent"}
Before == Orders \cup LoopPCs \cup StrugglePCs \cup {"route"}
Routing == {"routeRow", "hardPinned", "decide", "scorer"}
After == {"progress", "breakRead", "breakExpire", "shadow", "shadowCount", "shadowInsert"}

Active(t) == turn[t].pc \notin {"idle", "done"}

Fields == {"pc", "rep", "q", "via", "force", "seen", "forced", "cleared", "model", "action", "group",
           "off", "key", "hard", "served", "reason", "pin", "trimmed", "pending", "claim", "faulty", "rescue"}

\* A record with the fields of a turn, whatever their values.
Shaped(r) == DOMAIN r = Fields /\ r = [f \in Fields |-> r[f]]

\* The stores hold what the router writes; turns that are under way together
\* are known to overlap.
StoreInv ==
  /\ conf \in Settings
  /\ ctl = [model |-> ctl.model, reason |-> ctl.reason, last |-> ctl.last]
  /\ Forcing(ctl) => ctl.model \in Models
  /\ row.reason = "forced" => row.model \in Models /\ row.until = Never
  /\ now \in Start .. MaxTime
  /\ DOMAIN turn = Turns
  /\ \A t, u \in Turns : t # u /\ Active(t) /\ Active(u) => {t, u} \in over

\* Where a turn is, and what it holds there whatever the stores say.
TurnInv(t) ==
  LET r == turn[t]
  IN  /\ Shaped(r)
      /\ r.pc \in {"idle", "done"} \cup Before \cup Routing \cup After
      /\ r.claim = NoClaim \/ r.claim.by \in {"ctl", "row"}
      /\ r.pc = "idle" => r.claim = NoClaim /\ ~r.faulty
      /\ r.pc \in {"idle"} \cup Orders => r.force = None /\ r.rescue = None
      /\ r.pc \in {"idle"} \cup Before \cup Routing => r.served = None
      /\ r.pc \in Orders => r.model \in Models \cup {"clear"}
      /\ r.pc = "strugglePin" => r.model \in Models
      /\ r.pc \in {"loopEvent", "struggleEvent"} /\ r.action \in Acted => r.rescue # None
      /\ r.pin.reason = "forced" => r.pin.model \in Models

\* Eligibility, the settings in sight.
Excluded(c, q) == c.policy \cup (Models \ q.subset) \cup q.outgrown
SeesImages(q, m) == ~q.images \/ m \in VisionModels
Fits(c, q, m) == m \notin Excluded(c, q) /\ SeesImages(q, m)
Takes(c, q, m) == m \notin c.policy \cup q.outgrown /\ SeesImages(q, m)

\* What a turn with a claim, and no failure of its own, can count on.
ClaimInv(t) ==
  LET r == turn[t]
  IN  /\ r.claim.by = "ctl" => Forcing(ctl) /\ ctl.model = r.claim.model
      /\ ~r.faulty /\ r.claim.by = "row" =>
           /\ r.pc \in Before \cup {"routeRow"} =>
                row.reason = "forced" /\ row.model = r.claim.model /\ ctl.reason = None
           /\ r.pc \in Before \cup {"routeRow", "decide"} => r.force = None
           /\ r.pc \in {"loopControl", "loopCount", "struggleControl", "struggleCount"} => r.forced
           /\ r.pc \notin {"loopPin", "strugglePin"}
           /\ r.pc = "routeRow" => ~r.cleared
           /\ r.pc = "hardPinned" => r.force = r.claim.model /\ r.force # None
           /\ r.pc = "decide" => r.pin.reason = "forced" /\ r.pin.model = r.claim.model
      /\ ~r.faulty /\ r.claim.by = "ctl" =>
           /\ r.pc \in Before /\ r.force # None => r.force = r.claim.model
           /\ r.pc \in {"routeRow", "hardPinned", "decide"} => r.force = r.claim.model /\ r.force # None
      /\ ~r.faulty /\ r.claim # NoClaim =>
           /\ r.pc = "scorer" => ~Takes(conf, r.q, r.claim.model)
           /\ r.pc \in After \cup {"done"} /\ r.served # None =>
                r.served = r.claim.model \/ ~Takes(conf, r.q, r.claim.model)

\* A turn that is about to record its detector saw no record, so whoever
\* recorded since ran at the same time.
About(r, e) ==
  \/ r.pc \in {"loopPin", "loopEvent"} /\ e.table = "loop" /\ e.reason = None
  \/ r.pc \in {"strugglePin", "struggleEvent"} /\ e.table = "struggle" /\ e.reason = None
  \/ r.pc = "shadowInsert" /\ e.table = Head(r.pending)[1] /\ e.reason = Head(r.pending)[2]

EventInv ==
  /\ \A e \in events : e.by \in Turns
  /\ \A e, f \in events : e.table = "struggle" /\ f.table = "struggle" => e = f
  /\ \A e, f \in events :
       e # f /\ e.table = f.table /\ e.reason = f.reason
         => {e.by, f.by} \in over \/ turn[e.by].faulty \/ turn[f.by].faulty
  /\ \A e \in events : e.action \in Acted => turn[e.by].rescue # None
  /\ \A t \in Turns : \A e \in events : ~turn[t].faulty /\ About(turn[t], e) => {e.by, t} \in over

Displaced(c, r) == r.hard \/ r.rescue \in r.off \/ ~Fits(c, r.q, r.rescue)

\* Turns end before a pin they wrote expires.
Timely == MaxTime < Start + pinSessionTTL

\* What a turn that runs alone, and without a failure, knows of its rescue.
RescueInv(t) ==
  LET r == turn[t]
  IN  Timely /\ Alone(t) /\ ~r.faulty =>
        /\ r.pc \in Before /\ r.force # None => Forcing(ctl)
        /\ r.pc \in {"loopCount", "struggleCount"} /\ ~r.forced => ~Forcing(ctl)
        /\ r.pc \in {"loopPin", "strugglePin"} => ~Forcing(ctl)
        /\ r.rescue # None =>
             /\ r.pc \in Before \cup {"routeRow"} =>
                  /\ ~Forcing(ctl) /\ row.model = r.rescue /\ row.reason \in Rescues
                  /\ row.until \in Int /\ row.until > MaxTime
             /\ r.pc \in {"routeRow", "decide"} => r.force = None
             /\ r.pc = "decide" => r.pin.model = r.rescue /\ r.pin.reason \in Rescues
             /\ r.pc = "hardPinned" => r.hard
             /\ r.pc = "scorer" => Displaced(conf, r)
             /\ r.pc \in After \cup {"done"} /\ r.served # None => r.served = r.rescue \/ Displaced(conf, r)

IInv == StoreInv /\ EventInv /\ \A t \in Turns : TurnInv(t) /\ ClaimInv(t) /\ RescueInv(t)

-----------------------------------------------------------------------------
(* Eligibility.                                                             *)

\* A force is held back by policy and size alone.
LEMMA TakesIs ==
  ASSUME NEW q, NEW m
  PROVE  forcedPinEligible(q, m) <=> Takes(conf, q, m)
  BY SMT DEF forcedPinEligible, readmitForcedModel, pinServesImages, ExcludedModels, BaseExcluded,
             Unlisted, Takes, SeesImages

\* A rescue is held back by the request's list too.
LEMMA FitsIs ==
  ASSUME NEW q, NEW m
  PROVE  pinEligible(q, m) <=> Fits(conf, q, m)
  BY DEF pinEligible, pinServesImages, ExcludedModels, BaseExcluded, Unlisted, Fits, SeesImages, Excluded

-----------------------------------------------------------------------------
(* Records with a turn's fields, and what a step makes of them.             *)

\* A turn begins with a turn's fields.
LEMMA IdleShaped == Shaped(Idle)
  BY DEF Shaped, Idle, Fields

\* What a step carries along, whichever step the turn takes next.
Same(n, r) ==
  /\ Shaped(n)
  /\ n.q = r.q /\ n.off = r.off /\ n.hard = r.hard /\ n.served = r.served
  /\ n.claim = r.claim /\ n.rescue = r.rescue /\ n.faulty = r.faulty
  /\ n.force = r.force /\ n.forced = r.forced /\ n.cleared = r.cleared /\ n.model = r.model
  /\ n.action = r.action /\ n.pin = r.pin /\ n.pending = r.pending

\* What is left of r once the step's outcome is charged.
Became(n, r, ok) ==
  /\ Shaped(n)
  /\ n.pc = r.pc /\ n.q = r.q /\ n.off = r.off /\ n.hard = r.hard /\ n.served = r.served
  /\ n.claim = r.claim /\ n.rescue = r.rescue
  /\ ~n.faulty <=> ~r.faulty /\ ok
  /\ n.pin = r.pin \/ n.pin = NoRow
  /\ r.pc # "done" =>
       /\ n.force = r.force /\ n.forced = r.forced /\ n.cleared = r.cleared /\ n.model = r.model
       /\ n.action = r.action /\ n.pin = r.pin /\ n.pending = r.pending

\* A done turn keeps what the properties ask for.
LEMMA SettledIs ==
  ASSUME NEW r, Shaped(r)
  PROVE  LET n == Settled(r)
         IN  /\ Shaped(n)
             /\ n.pc = r.pc /\ n.q = r.q /\ n.off = r.off /\ n.hard = r.hard /\ n.served = r.served
             /\ n.claim = r.claim /\ n.rescue = r.rescue /\ n.faulty = r.faulty
             /\ n.pin = r.pin \/ n.pin = NoRow
             /\ r.pc # "done" => n = r
  <1> DEFINE n == [Idle EXCEPT !.pc = "done", !.q = r.q, !.off = r.off, !.hard = r.hard, !.served = r.served,
                    !.claim = r.claim, !.faulty = r.faulty, !.rescue = r.rescue]
  <1>1. Shaped(n)
    BY IdleShaped, Zenon DEF Shaped, Fields
  <1>2. /\ n.pc = "done" /\ n.q = r.q /\ n.off = r.off /\ n.hard = r.hard /\ n.served = r.served
        /\ n.claim = r.claim /\ n.rescue = r.rescue /\ n.faulty = r.faulty /\ n.pin = NoRow
    BY DEF Idle
  <1> HIDE DEF n
  <1>3. Settled(r) = IF r.pc # "done" THEN r ELSE n
    BY DEF Settled, n
  <1> QED BY <1>1, <1>2, <1>3

\* A failure is charged to the turn; nothing else changes.
LEMMA ChargedIs ==
  ASSUME NEW r, Shaped(r), NEW ok \in BOOLEAN
  PROVE  Became(Charged(r, ok), r, ok)
  <1> DEFINE c == [r EXCEPT !.faulty = r.faulty \/ ~ok]
  <1>1. Shaped(c)
    BY Zenon DEF Shaped, Fields
  <1>2. c.faulty = (r.faulty \/ ~ok) /\ c.pc = r.pc
    BY Zenon DEF Shaped, Fields
  <1>3. /\ c.q = r.q /\ c.off = r.off /\ c.hard = r.hard /\ c.served = r.served
        /\ c.claim = r.claim /\ c.rescue = r.rescue
        /\ c.force = r.force /\ c.forced = r.forced /\ c.cleared = r.cleared /\ c.model = r.model
        /\ c.action = r.action /\ c.pin = r.pin /\ c.pending = r.pending
    BY Zenon DEF Shaped, Fields
  <1>4. Charged(r, ok) = Settled(c)
    BY DEF Charged
  <1> HIDE DEF c
  <1>5. /\ Shaped(Settled(c))
        /\ Settled(c).pc = c.pc /\ Settled(c).q = c.q /\ Settled(c).off = c.off
        /\ Settled(c).hard = c.hard /\ Settled(c).served = c.served
        /\ Settled(c).claim = c.claim /\ Settled(c).rescue = c.rescue /\ Settled(c).faulty = c.faulty
        /\ Settled(c).pin = c.pin \/ Settled(c).pin = NoRow
        /\ c.pc # "done" => Settled(c) = c
    BY <1>1, SettledIs
  <1> QED BY <1>2, <1>3, <1>4, <1>5 DEF Became

\* The next step after the loop rescue.
LEMMA AfterLoopIs ==
  ASSUME NEW r, Shaped(r)
  PROVE  Same(AfterLoop(r), r) /\ AfterLoop(r).pc \in {"struggleRead", "route"}
  BY Zenon DEF AfterLoop, Same, Shaped, Fields

\* The next step after the user's orders.
LEMMA AfterForceIs ==
  ASSUME NEW r, Shaped(r)
  PROVE  Same(AfterForce(r), r) /\ AfterForce(r).pc \in {"loopRead", "struggleRead", "route"}
  <1>1. Same([r EXCEPT !.pc = "loopRead"], r) /\ [r EXCEPT !.pc = "loopRead"].pc = "loopRead"
    BY Zenon DEF Same, Shaped, Fields
  <1> QED BY <1>1, AfterLoopIs DEF AfterForce

\* The same but for what an order is about.
Kept(n, r) ==
  /\ Shaped(n)
  /\ n.q = r.q /\ n.off = r.off /\ n.hard = r.hard /\ n.served = r.served
  /\ n.claim = r.claim /\ n.rescue = r.rescue /\ n.faulty = r.faulty /\ n.pin = r.pin

\* The request's own force is written down before the turn goes on.
LEMMA ApplyIs ==
  ASSUME NEW r, Shaped(r)
  PROVE  LET n == applyForceModel(r)
         IN  /\ Kept(n, r) /\ n.force = r.force
             /\ n.pc \in {"loopRead", "struggleRead", "route", "done", "preserve"}
             /\ n.pc = "preserve" => n.model \in Models
  <1> DEFINE m == r.q.header
             d == [r EXCEPT !.pc = "done"]
             p == [r EXCEPT !.pc = "preserve", !.via = "header", !.model = m]
  <1>1. Kept(d, r) /\ d.force = r.force /\ d.pc = "done"
    BY Zenon DEF Kept, Shaped, Fields
  <1>2. Kept(p, r) /\ p.force = r.force /\ p.pc = "preserve" /\ p.model = m
    BY Zenon DEF Kept, Shaped, Fields
  <1>3. /\ Kept(AfterForce(r), r) /\ AfterForce(r).force = r.force
        /\ AfterForce(r).pc \in {"loopRead", "struggleRead", "route"}
    BY AfterForceIs DEF Same, Kept
  <1>4. \/ applyForceModel(r) = AfterForce(r) \/ applyForceModel(r) = d
        \/ applyForceModel(r) = p /\ m \in Models
    BY DEF applyForceModel
  <1> HIDE DEF m, d, p
  <1> QED BY <1>1, <1>2, <1>3, <1>4

\* An order that is done: the turn goes on under it.
LEMMA ObeyedIs ==
  ASSUME NEW r, Shaped(r), r.force = None, NEW force
  PROVE  LET n == Obeyed(r, force)
         IN  /\ Kept(n, r)
             /\ n.pc \in {"loopRead", "struggleRead", "route", "done", "preserve"}
             /\ n.pc # "done" => n.force = force
             /\ n.pc = "preserve" => n.model \in Models /\ force = None
  <1> DEFINE d == [r EXCEPT !.pc = "done"]
             f == [r EXCEPT !.force = force]
  <1>1. Kept(d, r) /\ d.pc = "done"
    BY Zenon DEF Kept, Shaped, Fields
  <1>2. Kept(f, r) /\ f.force = force
    BY Zenon DEF Kept, Shaped, Fields
  <1>3. /\ Same(AfterForce(f), f)
        /\ AfterForce(f).pc \in {"loopRead", "struggleRead", "route"}
    BY <1>2, AfterForceIs DEF Kept
  <1>4. Kept(AfterForce(f), r) /\ AfterForce(f).force = force
    BY <1>2, <1>3 DEF Same, Kept
  <1>5. \/ Obeyed(r, force) = d
        \/ Obeyed(r, force) = applyForceModel(r) /\ force = None
        \/ Obeyed(r, force) = AfterForce(f)
    BY DEF Obeyed
  <1> HIDE DEF d, f
  <1>6. CASE Obeyed(r, force) = applyForceModel(r) /\ force = None
    BY <1>6, ApplyIs
  <1> QED BY <1>1, <1>3, <1>4, <1>5, <1>6

\* An order whose writes fail ends the turn, or holds for this turn.
LEMMA DisobeyedIs ==
  ASSUME NEW r, Shaped(r), r.force = None
  PROVE  LET n == Disobeyed(r)
         IN  /\ Kept(n, r)
             /\ n.pc \in {"loopRead", "struggleRead", "route", "done", "preserve"}
             /\ n.pc = "preserve" => n.model \in Models /\ n.force = None
  <1> DEFINE d == [r EXCEPT !.pc = "done"]
  <1>1. Kept(d, r) /\ d.pc = "done"
    BY Zenon DEF Kept, Shaped, Fields
  <1>2. Disobeyed(r) = d \/ Disobeyed(r) = Obeyed(r, r.model)
    BY DEF Disobeyed
  <1> HIDE DEF d
  <1>3. LET n == Obeyed(r, r.model)
        IN  /\ Kept(n, r)
            /\ n.pc \in {"loopRead", "struggleRead", "route", "done", "preserve"}
            /\ n.pc # "done" => n.force = r.model
            /\ n.pc = "preserve" => n.model \in Models /\ r.model = None
    BY ObeyedIs
  <1> QED BY <1>1, <1>2, <1>3

-----------------------------------------------------------------------------
(* What a step of one turn leaves to the others.                            *)

Holds(t) == TurnInv(t) /\ ClaimInv(t) /\ RescueInv(t)

\* What a step of t may do to another turn and to what it counts on.
Spared(t, u) ==
  /\ turn'[u] = turn[u] \/ turn'[u] = [turn[u] EXCEPT !.claim = NoClaim]
  /\ turn'[u].claim.by = "ctl" => ctl'.reason = ctl.reason /\ ctl'.model = ctl.model
  /\ turn'[u].claim.by = "row" => row' = row /\ ctl'.reason = ctl.reason

\* A turn that is spared keeps what it holds: it overlaps with t, or is over.
LEMMA SparedHolds ==
  ASSUME StoreInv, NEW t \in Turns, NEW u \in Turns, t # u, Active(t), Holds(u), Spared(t, u),
         conf' = conf, over' = over
  PROVE  Holds(u)'
  <1> DEFINE r == turn[u]
  <1>1. Shaped(r)
    BY DEF Holds, TurnInv
  <1>2. /\ Shaped(turn'[u]) /\ turn'[u].pc = r.pc
        /\ turn'[u].claim = r.claim \/ turn'[u].claim = NoClaim
        /\ turn'[u].q = r.q /\ turn'[u].off = r.off /\ turn'[u].hard = r.hard /\ turn'[u].served = r.served
        /\ turn'[u].rescue = r.rescue /\ turn'[u].faulty = r.faulty
        /\ turn'[u].force = r.force /\ turn'[u].forced = r.forced /\ turn'[u].cleared = r.cleared
        /\ turn'[u].model = r.model /\ turn'[u].action = r.action /\ turn'[u].pin = r.pin
    <2>1. CASE turn'[u] = [r EXCEPT !.claim = NoClaim]
      BY <2>1, <1>1, Zenon DEF Shaped, Fields
    <2>2. CASE turn'[u] = r
      BY <2>2, <1>1
    <2> QED BY <2>1, <2>2 DEF Spared
  <1>3. NoClaim.by = None
    BY DEF NoClaim
  <1>4. TurnInv(u)'
    BY <1>2, <1>3 DEF Holds, TurnInv
  <1>5. ClaimInv(u)'
    BY <1>2, <1>3 DEF Holds, ClaimInv, Spared, Forcing, None
  <1>6. RescueInv(u)'
    <2>1. CASE Active(u)
      <3>1. ~Alone(u)'
        BY <2>1 DEF StoreInv, Alone
      <3> QED BY <3>1 DEF RescueInv
    <2>2. CASE ~Active(u)
      <3>1. Alone(u)' <=> Alone(u)
        BY DEF Alone
      <3>2. turn'[u].pc \in {"idle", "done"}
        BY <2>2, <1>2 DEF Active
      <3>3. Displaced(conf', turn'[u]) <=> Displaced(conf, r)
        BY <1>2 DEF Displaced
      <3> QED BY <3>1, <3>2, <3>3, <1>2 DEF Holds, RescueInv, Before, Orders, LoopPCs, StrugglePCs, After
    <2> QED BY <2>1, <2>2
  <1> QED BY <1>4, <1>5, <1>6 DEF Holds

\* A step of t that only moves t.
LEMMA MoveIs ==
  ASSUME StoreInv, NEW t \in Turns, NEW ok \in BOOLEAN, NEW r, Shaped(r), Move(t, ok, r)
  PROVE  /\ Became(turn'[t], r, ok) /\ DOMAIN turn' = Turns
         /\ \A u \in Turns : u # t => turn'[u] = turn[u]
  <1>1. turn' = [turn EXCEPT ![t] = Charged(r, ok)] /\ DOMAIN turn = Turns
    BY DEF Move, StoreInv
  <1>2. turn'[t] = Charged(r, ok)
    BY <1>1
  <1> QED BY <1>1, <1>2, ChargedIs

\* A step of t that ends the others' claims on what it writes.
LEMMA OverruleIs ==
  ASSUME NEW t \in Turns, NEW ok \in BOOLEAN, NEW r, Shaped(r), NEW bys, Overrule(t, bys, r, ok)
  PROVE  /\ Became(turn'[t], r, ok) /\ DOMAIN turn' = Turns
         /\ \A u \in Turns : u # t =>
              turn'[u] = IF ok /\ turn[u].claim.by \in bys THEN [turn[u] EXCEPT !.claim = NoClaim] ELSE turn[u]
  <1>1. turn'[t] = Charged(r, ok)
    BY DEF Overrule
  <1> QED BY <1>1, ChargedIs DEF Overrule

\* What a step of t leaves in place around it.
Around(t) ==
  /\ conf' = conf /\ over' = over /\ now' = now /\ DOMAIN turn' = Turns
  /\ \A u \in Turns : u # t => Spared(t, u)

\* A step that writes neither the pin nor the control row.
LEMMA MoveAround ==
  ASSUME StoreInv, NEW t \in Turns, NEW ok \in BOOLEAN, NEW r, Shaped(r), Move(t, ok, r),
         conf' = conf, over' = over, now' = now, row' = row, ctl' = ctl
  PROVE  Around(t) /\ Became(turn'[t], r, ok) /\ \A u \in Turns : u # t => turn'[u] = turn[u]
  BY MoveIs DEF Around, Spared

\* A read.
LEMMA ReadAround ==
  ASSUME StoreInv, NEW t \in Turns, NEW ok \in BOOLEAN, NEW r, Shaped(r), Read(t, ok, r)
  PROVE  /\ Around(t) /\ Became(turn'[t], r, ok) /\ \A u \in Turns : u # t => turn'[u] = turn[u]
         /\ UNCHANGED <<conf, row, ctl, events, over, now, withdrawn>>
  <1>1. Move(t, ok, r) /\ UNCHANGED <<conf, row, ctl, events, over, now, withdrawn>>
    BY DEF Read, stores
  <1> QED BY <1>1, MoveAround

\* A write of the pin.
LEMMA WriteAround ==
  ASSUME StoreInv, \A u \in Turns : TurnInv(u),
         NEW t \in Turns, NEW ok \in BOOLEAN, NEW r, Shaped(r), NEW pin, WriteRow(t, ok, pin, r)
  PROVE  /\ Around(t) /\ Became(turn'[t], r, ok)
         /\ row' = IF ok THEN Upserted(pin) ELSE row
         /\ UNCHANGED <<conf, ctl, events, over, now, withdrawn>>
  <1>1. /\ Overrule(t, {"row"}, r, ok) /\ row' = IF ok THEN Upserted(pin) ELSE row
        /\ UNCHANGED <<conf, ctl, events, over, now, withdrawn>>
    BY DEF WriteRow
  <1>2. /\ Became(turn'[t], r, ok) /\ DOMAIN turn' = Turns
        /\ \A u \in Turns : u # t =>
             turn'[u] = IF ok /\ turn[u].claim.by \in {"row"} THEN [turn[u] EXCEPT !.claim = NoClaim] ELSE turn[u]
    BY <1>1, OverruleIs
  <1>3. ASSUME NEW u \in Turns, u # t
        PROVE  Spared(t, u)
    <2>1. CASE turn'[u] = turn[u] /\ (~ok \/ turn[u].claim.by # "row")
      BY <2>1, <1>1 DEF Spared
    <2>2. CASE turn'[u] = [turn[u] EXCEPT !.claim = NoClaim]
      <3>1. turn'[u].claim = NoClaim
        BY <2>2, Zenon DEF TurnInv, Shaped, Fields
      <3> QED BY <3>1, <2>2 DEF Spared, NoClaim, None
    <2>3. turn'[u] = IF ok /\ turn[u].claim.by = "row" THEN [turn[u] EXCEPT !.claim = NoClaim] ELSE turn[u]
      BY <1>2, <1>3
    <2> QED BY <2>1, <2>2, <2>3
  <1> QED BY <1>1, <1>2, <1>3 DEF Around

-----------------------------------------------------------------------------
(* The stores and the events.                                               *)

\* A step of t moves no other turn.
LEMMA OthersStay ==
  ASSUME \A u \in Turns : TurnInv(u), NEW t \in Turns, Around(t)
  PROVE  \A u \in Turns : u # t =>
           /\ turn'[u].faulty = turn[u].faulty /\ turn'[u].rescue = turn[u].rescue
           /\ turn'[u].pc = turn[u].pc /\ turn'[u].pending = turn[u].pending
  <1> SUFFICES ASSUME NEW u \in Turns, u # t
               PROVE  /\ turn'[u].faulty = turn[u].faulty /\ turn'[u].rescue = turn[u].rescue
                      /\ turn'[u].pc = turn[u].pc /\ turn'[u].pending = turn[u].pending
    OBVIOUS
  <1>1. Shaped(turn[u])
    BY DEF TurnInv
  <1>2. turn'[u] = turn[u] \/ turn'[u] = [turn[u] EXCEPT !.claim = NoClaim]
    BY DEF Around, Spared
  <1> QED BY <1>1, <1>2, Zenon DEF Shaped, Fields

\* What the stores hold, after a step of t that leaves them well formed.
LEMMA StoreKept ==
  ASSUME StoreInv, NEW t \in Turns, Active(t), Around(t), \A u \in Turns : TurnInv(u),
         ctl' = [model |-> ctl'.model, reason |-> ctl'.reason, last |-> ctl'.last],
         Forcing(ctl') => ctl'.model \in Models,
         row'.reason = "forced" => row'.model \in Models /\ row'.until = Never
  PROVE  StoreInv'
  <1>1. \A u \in Turns : u # t => turn'[u].pc = turn[u].pc
    BY OthersStay
  <1>2. \A u \in Turns : Active(u)' => Active(u)
    BY <1>1 DEF Active
  <1> QED BY <1>2 DEF StoreInv, Around, Never

\* What a step of t does to what t is charged with and has done.
Grows(t) ==
  /\ turn[t].faulty => turn'[t].faulty
  /\ turn[t].rescue # None => turn'[t].rescue # None

\* A step that records nothing, and aims at nothing new.
LEMMA EventsKept ==
  ASSUME EventInv, StoreInv, NEW t \in Turns, Around(t), Grows(t), events' = events, \A u \in Turns : TurnInv(u),
         \A e \in events : ~turn'[t].faulty /\ About(turn'[t], e) => {e.by, t} \in over
  PROVE  EventInv'
  <1>1. \A u \in Turns : u # t =>
          /\ turn'[u].faulty = turn[u].faulty /\ turn'[u].rescue = turn[u].rescue
          /\ turn'[u].pc = turn[u].pc /\ turn'[u].pending = turn[u].pending
    BY OthersStay
  <1>2. over' = over
    BY DEF Around
  <1>3. ASSUME NEW u \in Turns
        PROVE  /\ turn[u].faulty => turn'[u].faulty
               /\ turn[u].rescue # None => turn'[u].rescue # None
    BY <1>1 DEF Grows
  <1>4. ASSUME NEW u \in Turns, NEW e \in events, ~turn'[u].faulty, About(turn'[u], e)
        PROVE  {e.by, u} \in over
    <2>1. CASE u = t
      BY <2>1, <1>4
    <2>2. CASE u # t
      <3>1. ~turn[u].faulty /\ About(turn[u], e)
        BY <1>1, <1>4, <2>2 DEF About
      <3> QED BY <3>1 DEF EventInv
    <2> QED BY <2>1, <2>2
  <1> QED BY <1>2, <1>3, <1>4 DEF EventInv

\* A step that records what t was about to record.
LEMMA EventsGrow ==
  ASSUME EventInv, StoreInv, \A u \in Turns : TurnInv(u),
         NEW t \in Turns, Active(t), Around(t), Grows(t),
         NEW e, events' = events \cup {e}, ~Duplicate(e), e.by = t, About(turn[t], e),
         e.action \in Acted => turn'[t].rescue # None,
         \A f \in events' : ~About(turn'[t], f)
  PROVE  EventInv'
  <1>1. \A u \in Turns : u # t =>
          /\ turn'[u].faulty = turn[u].faulty /\ turn'[u].rescue = turn[u].rescue
          /\ turn'[u].pc = turn[u].pc /\ turn'[u].pending = turn[u].pending
    BY OthersStay
  <1>2. over' = over
    BY DEF Around
  <1>3. ASSUME NEW u \in Turns
        PROVE  /\ turn[u].faulty => turn'[u].faulty
               /\ turn[u].rescue # None => turn'[u].rescue # None
    BY <1>1 DEF Grows
  <1>4. ASSUME NEW u \in Turns, NEW f \in events', ~turn'[u].faulty, About(turn'[u], f)
        PROVE  {f.by, u} \in over
    <2>1. u # t
      BY <1>4
    <2>2. ~turn[u].faulty /\ About(turn[u], f)
      BY <1>1, <1>4, <2>1 DEF About
    <2>3. CASE f \in events
      BY <2>2, <2>3 DEF EventInv
    <2>4. CASE f = e
      <3>1. Active(u)
        BY <2>2 DEF Active, About
      <3> QED BY <3>1, <2>1, <2>4 DEF StoreInv
    <2> QED BY <2>3, <2>4
  <1>5. ASSUME NEW f \in events, f.table = e.table, f.reason = e.reason
        PROVE  {f.by, t} \in over \/ turn[t].faulty
    <2>1. About(turn[t], f)
      BY <1>5 DEF About
    <2> QED BY <2>1 DEF EventInv
  <1>6. ASSUME NEW f \in events', NEW g \in events', f # g, f.table = g.table, f.reason = g.reason
        PROVE  {f.by, g.by} \in over \/ turn'[f.by].faulty \/ turn'[g.by].faulty
    <2>1. CASE f \in events /\ g \in events
      BY <1>3, <1>6, <2>1 DEF EventInv
    <2>2. CASE f = e /\ g \in events
      <3>1. {t, g.by} = {g.by, t}
        OBVIOUS
      <3> QED BY <1>3, <1>5, <1>6, <2>2, <3>1
    <2>3. CASE f \in events /\ g = e
      BY <1>3, <1>5, <1>6, <2>3
    <2> QED BY <1>6, <2>1, <2>2, <2>3
  <1>7. \A f \in events' : f.by \in Turns /\ (f.action \in Acted => turn'[f.by].rescue # None)
    BY <1>3 DEF EventInv
  <1>8. ASSUME NEW f \in events', NEW g \in events', f.table = "struggle", g.table = "struggle"
        PROVE  f = g
    BY <1>8 DEF EventInv, Duplicate
  <1> QED BY <1>2, <1>4, <1>6, <1>7, <1>8 DEF EventInv

-----------------------------------------------------------------------------
(* The steps that leave the stores alone.                                   *)

Keeps(t) == Around(t) /\ StoreInv' /\ EventInv' /\ Holds(t)'

Quiet(t, ok, r) ==
  /\ Shaped(r) /\ Active(t)
  /\ r.faulty = turn[t].faulty /\ r.rescue = turn[t].rescue
  /\ Move(t, ok, r) /\ UNCHANGED <<conf, row, ctl, events, over, now>>

\* A read is quiet.
LEMMA ReadIsQuiet ==
  ASSUME NEW t, NEW ok, NEW r, Read(t, ok, r)
  PROVE  Move(t, ok, r) /\ UNCHANGED <<conf, row, ctl, events, over, now>>
  BY DEF Read, stores

\* A quiet step has the rest to itself: what is left is its own turn.
LEMMA QuietKeeps ==
  ASSUME IInv, NEW t \in Turns, NEW ok \in BOOLEAN, NEW r, Quiet(t, ok, r),
         \A e \in events : ok /\ ~turn[t].faulty /\ About(r, e) => {e.by, t} \in over
  PROVE  Around(t) /\ StoreInv' /\ EventInv' /\ Became(turn'[t], r, ok)
  <1>1. Around(t) /\ Became(turn'[t], r, ok)
    BY MoveAround DEF Quiet, IInv
  <1>2. StoreInv'
    BY <1>1, StoreKept DEF Quiet, IInv, StoreInv
  <1>3. Grows(t)
    BY <1>1 DEF Became, Grows, Quiet
  <1>4. ASSUME NEW e \in events, ~turn'[t].faulty, About(turn'[t], e)
        PROVE  {e.by, t} \in over
    <2>1. About(r, e) /\ ok /\ ~turn[t].faulty
      BY <1>1, <1>4 DEF Became, About, Quiet
    <2> QED BY <2>1
  <1>5. EventInv'
    BY <1>1, <1>3, <1>4, EventsKept DEF Quiet, IInv
  <1> QED BY <1>1, <1>2, <1>5

\* A turn that is not about to record anything.
LEMMA NotAbout ==
  ASSUME NEW r, r.pc \notin {"loopPin", "loopEvent", "strugglePin", "struggleEvent", "shadowInsert"}
  PROVE  \A e : ~About(r, e)
  BY DEF About

\* The pin row is read before the loop rescue is weighed.
LEMMA LoopReadKeeps ==
  ASSUME IInv, NEW t \in Turns, NEW ok \in BOOLEAN, LoopRead(t, ok)
  PROVE  Keeps(t)
  <1> DEFINE o == turn[t]
             found == ok /\ Found(row)
             w == [o EXCEPT !.pc = "loopControl", !.forced = found /\ row.reason = "forced",
                            !.model = IF found /\ row.model # None THEN row.model ELSE o.q.model]
             r == IF found /\ row.reason = "loop" THEN AfterLoop(o) ELSE w
  <1>1. o.pc = "loopRead" /\ Read(t, ok, r) /\ Shaped(o) /\ Holds(t) /\ Active(t)
    BY DEF LoopRead, IInv, Holds, TurnInv, Active
  <1>2. /\ Shaped(w) /\ w.pc = "loopControl" /\ w.forced = (found /\ row.reason = "forced")
        /\ w.q = o.q /\ w.off = o.off /\ w.hard = o.hard /\ w.served = o.served
        /\ w.claim = o.claim /\ w.rescue = o.rescue /\ w.faulty = o.faulty
        /\ w.force = o.force /\ w.pin = o.pin
    BY <1>1, Zenon DEF Shaped, Fields
  <1>3. Same(AfterLoop(o), o) /\ AfterLoop(o).pc \in {"struggleRead", "route"}
    BY <1>1, AfterLoopIs
  <1>4. /\ Shaped(r) /\ r.pc \in {"loopControl", "struggleRead", "route"}
        /\ r.q = o.q /\ r.off = o.off /\ r.hard = o.hard /\ r.served = o.served
        /\ r.claim = o.claim /\ r.rescue = o.rescue /\ r.faulty = o.faulty
        /\ r.force = o.force /\ r.pin = o.pin
        /\ r.pc = "loopControl" => r.forced = (found /\ row.reason = "forced")
    BY <1>2, <1>3 DEF Same
  <1> HIDE DEF r, w
  <1>5. Around(t) /\ StoreInv' /\ EventInv' /\ Became(turn'[t], r, ok)
    <2>1. Quiet(t, ok, r)
      BY <1>1, <1>4, ReadIsQuiet DEF Quiet
    <2> QED BY <2>1, <1>4, NotAbout, QuietKeeps
  <1>6. UNCHANGED <<conf, row, ctl, over>>
    BY <1>1, ReadIsQuiet
  <1>7. Holds(t)'
    BY <1>1, <1>4, <1>5, <1>6
    DEF Holds, TurnInv, ClaimInv, RescueInv, Became, Alone, Forcing, Found, Before, Orders, LoopPCs,
        StrugglePCs, Routing, After, NoRow, None
  <1> QED BY <1>5, <1>7 DEF Keeps

\* A thread's old force is looked up when the user gives an order.
LEMMA ClearLegacyKeeps ==
  ASSUME IInv, NEW t \in Turns, NEW ok \in BOOLEAN, clearLegacyForceModelPins(t, ok)
  PROVE  Keeps(t)
  <1> DEFINE o == turn[t]
             w == [o EXCEPT !.pc = IF row.reason = "forced" THEN "unpin" ELSE "preserve"]
             r == IF ~ok THEN Disobeyed(o) ELSE w
  <1>1. /\ o.pc \in {"legacy"} /\ Read(t, ok, r)
        /\ Shaped(o) /\ Holds(t) /\ Active(t)
    BY DEF clearLegacyForceModelPins, IInv, Holds, TurnInv, Active
  <1>2. Kept(w, o) /\ w.force = o.force /\ w.model = o.model /\ w.pc \in {"unpin", "preserve"}
    BY <1>1, Zenon DEF Shaped, Fields, Kept
  <1>3. /\ Kept(Disobeyed(o), o)
        /\ Disobeyed(o).pc \in {"loopRead", "struggleRead", "route", "done", "preserve"}
        /\ Disobeyed(o).pc = "preserve" => Disobeyed(o).model \in Models /\ Disobeyed(o).force = None
    BY <1>1, DisobeyedIs DEF Holds, TurnInv, Orders
  <1> HIDE DEF w
  <1>4. /\ Kept(r, o)
        /\ ok => r.force = o.force /\ r.model = o.model /\ r.pc \in {"unpin", "preserve"}
        /\ ~ok => /\ r.pc \in {"loopRead", "struggleRead", "route", "done", "preserve"}
                  /\ r.pc = "preserve" => r.model \in Models /\ r.force = None
    BY <1>2, <1>3
  <1> HIDE DEF r
  <1>5. Around(t) /\ StoreInv' /\ EventInv' /\ Became(turn'[t], r, ok)
    <2>1. Quiet(t, ok, r)
      BY <1>1, <1>4, ReadIsQuiet DEF Quiet, Kept
    <2> QED BY <2>1, <1>4, NotAbout, QuietKeeps
  <1>6. UNCHANGED <<conf, row, ctl, over, now>>
    BY <1>1, ReadIsQuiet
  <1>7. Holds(t)'
    BY <1>1, <1>4, <1>5, <1>6
    DEF Holds, TurnInv, ClaimInv, RescueInv, Became, Kept, Alone, Forcing, NoRow, None,
        Before, Orders, LoopPCs, StrugglePCs, Routing, After
  <1> QED BY <1>5, <1>7 DEF Keeps

\* The order that is replaced is read.
LEMMA PreserveKeeps ==
  ASSUME IInv, NEW t \in Turns, NEW ok \in BOOLEAN, preserveForceModelControlHistory(t, ok)
  PROVE  Keeps(t)
  <1> DEFINE o == turn[t]
             w == IF Forcing(ctl) /\ ctl.model # o.model
                  THEN [o EXCEPT !.pc = "history", !.group = ctl.model] ELSE [o EXCEPT !.pc = "control"]
             r == IF ~ok THEN Disobeyed(o) ELSE w
  <1>1. /\ o.pc \in {"preserve"} /\ Read(t, ok, r)
        /\ Shaped(o) /\ Holds(t) /\ Active(t)
    BY DEF preserveForceModelControlHistory, IInv, Holds, TurnInv, Active
  <1>2. Kept(w, o) /\ w.force = o.force /\ w.model = o.model /\ w.pc \in {"history", "control"}
    <2>1. LET h == [o EXCEPT !.pc = "history", !.group = ctl.model]
          IN  Kept(h, o) /\ h.force = o.force /\ h.model = o.model /\ h.pc = "history"
      BY <1>1, Zenon DEF Shaped, Fields, Kept
    <2>2. LET h == [o EXCEPT !.pc = "control"]
          IN  Kept(h, o) /\ h.force = o.force /\ h.model = o.model /\ h.pc = "control"
      BY <1>1, Zenon DEF Shaped, Fields, Kept
    <2> QED BY <2>1, <2>2
  <1>3. /\ Kept(Disobeyed(o), o)
        /\ Disobeyed(o).pc \in {"loopRead", "struggleRead", "route", "done", "preserve"}
        /\ Disobeyed(o).pc = "preserve" => Disobeyed(o).model \in Models /\ Disobeyed(o).force = None
    BY <1>1, DisobeyedIs DEF Holds, TurnInv, Orders
  <1> HIDE DEF w
  <1>4. /\ Kept(r, o)
        /\ ok => r.force = o.force /\ r.model = o.model /\ r.pc \in {"history", "control"}
        /\ ~ok => /\ r.pc \in {"loopRead", "struggleRead", "route", "done", "preserve"}
                  /\ r.pc = "preserve" => r.model \in Models /\ r.force = None
    BY <1>2, <1>3
  <1> HIDE DEF r
  <1>5. Around(t) /\ StoreInv' /\ EventInv' /\ Became(turn'[t], r, ok)
    <2>1. Quiet(t, ok, r)
      BY <1>1, <1>4, ReadIsQuiet DEF Quiet, Kept
    <2> QED BY <2>1, <1>4, NotAbout, QuietKeeps
  <1>6. UNCHANGED <<conf, row, ctl, over, now>>
    BY <1>1, ReadIsQuiet
  <1>7. Holds(t)'
    BY <1>1, <1>4, <1>5, <1>6
    DEF Holds, TurnInv, ClaimInv, RescueInv, Became, Kept, Alone, Forcing, NoRow, None,
        Before, Orders, LoopPCs, StrugglePCs, Routing, After
  <1> QED BY <1>5, <1>7 DEF Keeps

\* A session force keeps the loop rescue away.
LEMMA LoopControlKeeps ==
  ASSUME IInv, NEW t \in Turns, NEW ok \in BOOLEAN, LoopControl(t, ok)
  PROVE  Keeps(t)
  <1> DEFINE o == turn[t]
             r == [o EXCEPT !.pc = "loopCount", !.forced = @ \/ (ok /\ Forcing(ctl)),
                            !.model = IF ok /\ Forcing(ctl) THEN ctl.model ELSE @]
  <1>1. /\ o.pc \in {"loopControl"} /\ Read(t, ok, r)
        /\ Shaped(o) /\ Holds(t) /\ Active(t)
    BY DEF LoopControl, IInv, Holds, TurnInv, Active, loadForceModelSessionPin
  <1>4. /\ Kept(r, o) /\ r.force = o.force /\ r.pc = "loopCount"
        /\ r.forced = (o.forced \/ (ok /\ Forcing(ctl)))
    BY <1>1, Zenon DEF Shaped, Fields, Kept
  <1> HIDE DEF r
  <1>5. Around(t) /\ StoreInv' /\ EventInv' /\ Became(turn'[t], r, ok)
    <2>1. Quiet(t, ok, r)
      BY <1>1, <1>4, ReadIsQuiet DEF Quiet, Kept
    <2> QED BY <2>1, <1>4, NotAbout, QuietKeeps
  <1>6. UNCHANGED <<conf, row, ctl, over, now>>
    BY <1>1, ReadIsQuiet
  <1>7. Holds(t)'
    BY <1>1, <1>4, <1>5, <1>6
    DEF Holds, TurnInv, ClaimInv, RescueInv, Became, Kept, Alone, Forcing, NoRow, None,
        Before, Orders, LoopPCs, StrugglePCs, Routing, After
  <1> QED BY <1>5, <1>7 DEF Keeps

\* A force and a holdout keep the router from acting.
LEMMA LoopActionIs ==
  ASSUME NEW r
  PROVE  /\ loopAction(r) = "escalated" => ~r.forced
         /\ loopAction(r) \in Acted => loopAction(r) = "escalated"
  BY DEF loopAction, Acted

\* The loop rescue is weighed once a session.
LEMMA LoopCountKeeps ==
  ASSUME IInv, NEW t \in Turns, NEW ok \in BOOLEAN, LoopCount(t, ok)
  PROVE  Keeps(t)
  <1> DEFINE o == turn[t]
             a == [o EXCEPT !.action = loopAction(o)]
             w == [a EXCEPT !.pc = IF a.action = "escalated" THEN "loopPin" ELSE "loopEvent"]
             r == IF BudgetSpent(ok, "loop", None) THEN AfterLoop(o) ELSE w
  <1>1. /\ o.pc \in {"loopCount"} /\ Read(t, ok, r)
        /\ Shaped(o) /\ Holds(t) /\ Active(t)
    BY DEF LoopCount, IInv, Holds, TurnInv, Active
  <1>2. /\ Kept(w, o) /\ w.force = o.force /\ w.forced = o.forced /\ w.action = loopAction(o)
        /\ w.pc = IF loopAction(o) = "escalated" THEN "loopPin" ELSE "loopEvent"
    <2>1. Shaped(a) /\ Kept(a, o) /\ a.force = o.force /\ a.forced = o.forced /\ a.action = loopAction(o)
      BY <1>1, Zenon DEF Shaped, Fields, Kept
    <2> HIDE DEF a
    <2>2. /\ Kept(w, a) /\ w.force = a.force /\ w.forced = a.forced /\ w.action = a.action
          /\ w.pc = IF a.action = "escalated" THEN "loopPin" ELSE "loopEvent"
      BY <2>1, Zenon DEF Shaped, Fields, Kept
    <2> QED BY <2>1, <2>2 DEF Kept
  <1>3. Same(AfterLoop(o), o) /\ AfterLoop(o).pc \in {"struggleRead", "route"}
    BY <1>1, AfterLoopIs
  <1> HIDE DEF w
  <1>4. /\ Kept(r, o) /\ r.force = o.force
        /\ r.pc \in {"struggleRead", "route", "loopPin", "loopEvent"}
        /\ r.pc = "loopPin" => ~o.forced
        /\ r.pc = "loopEvent" => r.action \notin Acted
        /\ r.pc \in {"loopPin", "loopEvent"} => ~BudgetSpent(ok, "loop", None)
    BY <1>2, <1>3, LoopActionIs DEF Same, Kept, Acted
  <1> HIDE DEF r
  <1>5. Around(t) /\ StoreInv' /\ EventInv' /\ Became(turn'[t], r, ok)
    <2>1. Quiet(t, ok, r)
      BY <1>1, <1>4, ReadIsQuiet DEF Quiet, Kept
    <2> QED BY <2>1, <1>4, QuietKeeps DEF About, BudgetSpent, Recorded
  <1>6. UNCHANGED <<conf, row, ctl, over, now>>
    BY <1>1, ReadIsQuiet
  <1>7. Holds(t)'
    BY <1>1, <1>4, <1>5, <1>6
    DEF Holds, TurnInv, ClaimInv, RescueInv, Became, Kept, Alone, Forcing, NoRow, None,
        Before, Orders, LoopPCs, StrugglePCs, Routing, After
  <1> QED BY <1>5, <1>7 DEF Keeps

\* The struggle rescue is armed by the pin row.
LEMMA StruggleReadKeeps ==
  ASSUME IInv, NEW t \in Turns, NEW ok \in BOOLEAN, StruggleRead(t, ok)
  PROVE  Keeps(t)
  <1> DEFINE o == turn[t]
             armed == /\ ok /\ Found(row) /\ row.reason # "struggle"
                      /\ struggleReason(row.turns + 1, now - row.first) = "early"
             w == [o EXCEPT !.pc = "struggleControl", !.seen = row, !.forced = row.reason = "forced"]
             v == [o EXCEPT !.pc = "route"]
             r == IF ~armed THEN v ELSE w
  <1>1. /\ o.pc \in {"struggleRead"} /\ Read(t, ok, r)
        /\ Shaped(o) /\ Holds(t) /\ Active(t)
    BY DEF StruggleRead, IInv, Holds, TurnInv, Active
  <1>2. /\ Kept(w, o) /\ w.force = o.force /\ w.pc = "struggleControl"
        /\ w.forced = (row.reason = "forced")
    BY <1>1, Zenon DEF Shaped, Fields, Kept
  <1>3. Kept(v, o) /\ v.force = o.force /\ v.pc = "route"
    BY <1>1, Zenon DEF Shaped, Fields, Kept
  <1> HIDE DEF w, v, armed
  <1>4. /\ Kept(r, o) /\ r.force = o.force /\ r.pc \in {"struggleControl", "route"}
        /\ r.pc = "struggleControl" => r.forced = (row.reason = "forced")
    BY <1>2, <1>3
  <1> HIDE DEF r
  <1>5. Around(t) /\ StoreInv' /\ EventInv' /\ Became(turn'[t], r, ok)
    <2>1. Quiet(t, ok, r)
      BY <1>1, <1>4, ReadIsQuiet DEF Quiet, Kept
    <2> QED BY <2>1, <1>4, NotAbout, QuietKeeps
  <1>6. UNCHANGED <<conf, row, ctl, over, now>>
    BY <1>1, ReadIsQuiet
  <1>7. Holds(t)'
    BY <1>1, <1>4, <1>5, <1>6
    DEF Holds, TurnInv, ClaimInv, RescueInv, Became, Kept, Alone, Forcing, NoRow, None,
        Before, Orders, LoopPCs, StrugglePCs, Routing, After
  <1> QED BY <1>5, <1>7 DEF Keeps

\* A session force keeps the struggle rescue away.
LEMMA StruggleControlKeeps ==
  ASSUME IInv, NEW t \in Turns, NEW ok \in BOOLEAN, StruggleControl(t, ok)
  PROVE  Keeps(t)
  <1> DEFINE o == turn[t]
             r == [o EXCEPT !.pc = "struggleCount", !.forced = @ \/ (ok /\ Forcing(ctl)),
                            !.model = IF ok /\ Forcing(ctl) /\ "struggleCount" = "loopCount" THEN ctl.model ELSE @]
  <1>1. /\ o.pc \in {"struggleControl"} /\ Read(t, ok, r)
        /\ Shaped(o) /\ Holds(t) /\ Active(t)
    BY DEF StruggleControl, IInv, Holds, TurnInv, Active, loadForceModelSessionPin
  <1>4. /\ Kept(r, o) /\ r.force = o.force /\ r.pc = "struggleCount"
        /\ r.forced = (o.forced \/ (ok /\ Forcing(ctl)))
    BY <1>1, Zenon DEF Shaped, Fields, Kept
  <1> HIDE DEF r
  <1>5. Around(t) /\ StoreInv' /\ EventInv' /\ Became(turn'[t], r, ok)
    <2>1. Quiet(t, ok, r)
      BY <1>1, <1>4, ReadIsQuiet DEF Quiet, Kept
    <2> QED BY <2>1, <1>4, NotAbout, QuietKeeps
  <1>6. UNCHANGED <<conf, row, ctl, over, now>>
    BY <1>1, ReadIsQuiet
  <1>7. Holds(t)'
    BY <1>1, <1>4, <1>5, <1>6
    DEF Holds, TurnInv, ClaimInv, RescueInv, Became, Kept, Alone, Forcing, NoRow, None,
        Before, Orders, LoopPCs, StrugglePCs, Routing, After
  <1> QED BY <1>5, <1>7 DEF Keeps

-----------------------------------------------------------------------------
(* The struggle rescue's target.                                            *)

FlatStep(seqs, f, n) == IF n = 1 THEN seqs[n] ELSE f[n - 1] \o seqs[n]
IsFlat(seqs, f, len) == f = [n \in 1 .. len |-> FlatStep(seqs, f, n)]

\* The recursive definition in FlattenSeq has a solution.
LEMMA FlatDefined ==
  ASSUME NEW seqs, NEW len \in Nat
  PROVE  \E f : IsFlat(seqs, f, len)
  <1> DEFINE T == { n \in Nat : ~\E f : IsFlat(seqs, f, n) }
  <1>1. SUFFICES ASSUME T # {} PROVE FALSE
    OBVIOUS
  <1>2. PICK n \in T : \A m \in T : n <= m
    BY <1>1, Least
  <1>3. CASE n = 0
    <2> DEFINE f == [k \in 1 .. 0 |-> FlatStep(seqs, <<>>, k)]
    <2>1. f = [k \in 1 .. 0 |-> FlatStep(seqs, f, k)]
      OBVIOUS
    <2> QED BY <1>2, <1>3, <2>1 DEF IsFlat
  <1>4. CASE n # 0
    <2>1. n - 1 \in Nat /\ n - 1 \notin T
      BY <1>2, <1>4
    <2>2. PICK f : IsFlat(seqs, f, n - 1)
      BY <2>1
    <2> DEFINE g == [k \in 1 .. n |-> IF k = n THEN FlatStep(seqs, f, n) ELSE f[k]]
    <2>3. ASSUME NEW k \in 1 .. n
          PROVE  g[k] = FlatStep(seqs, g, k)
      <3>1. CASE k = n
        BY <3>1 DEF FlatStep
      <3>2. CASE k # n
        <4>1. k \in 1 .. n - 1 /\ g[k] = f[k]
          BY <3>2
        <4>2. f[k] = FlatStep(seqs, f, k)
          BY <4>1, <2>2 DEF IsFlat
        <4>3. k # 1 => g[k - 1] = f[k - 1]
          BY <4>1
        <4> QED BY <4>1, <4>2, <4>3 DEF FlatStep
      <3> QED BY <3>1, <3>2
    <2>4. IsFlat(seqs, g, n)
      BY <2>3 DEF IsFlat
    <2> QED BY <1>2, <2>4
  <1> QED BY <1>3, <1>4

\* Lists over S make a list over S.
LEMMA FlattenType ==
  ASSUME NEW S, NEW seqs \in Seq(Seq(S))
  PROVE  FlattenSeq(seqs) \in Seq(S)
  <1>1. CASE Len(seqs) = 0
    BY <1>1 DEF FlattenSeq
  <1>2. CASE Len(seqs) # 0
    <2> DEFINE f == CHOOSE g : IsFlat(seqs, g, Len(seqs))
    <2>0. Len(seqs) \in Nat
      OBVIOUS
    <2>1. IsFlat(seqs, f, Len(seqs))
      <3>1. \E g : IsFlat(seqs, g, Len(seqs))
        BY <2>0, FlatDefined
      <3> QED BY <3>1
    <2>2. FlattenSeq(seqs) = f[Len(seqs)]
      BY <1>2 DEF FlattenSeq, IsFlat, FlatStep
    <2>3. \A n \in 1 .. Len(seqs) : f[n] = FlatStep(seqs, f, n)
      BY <2>1 DEF IsFlat
    <2> HIDE DEF f
    <2> DEFINE T == { n \in 1 .. Len(seqs) : f[n] \notin Seq(S) }
    <2>4. SUFFICES T = {}
      BY <1>2, <2>2
    <2>5. SUFFICES ASSUME T # {} PROVE FALSE
      OBVIOUS
    <2>6. PICK n \in T : \A m \in T : n <= m
      <3>1. T \in SUBSET Nat
        BY <2>0
      <3> QED BY <2>5, <3>1, Least
    <2>7. seqs[n] \in Seq(S)
      BY <2>6
    <2>8. CASE n = 1
      BY <2>3, <2>6, <2>7, <2>8 DEF FlatStep
    <2>9. CASE n # 1
      <3>1. n - 1 \in 1 .. Len(seqs) /\ f[n - 1] \in Seq(S)
        BY <2>6, <2>9
      <3>2. f[n] = f[n - 1] \o seqs[n]
        BY <2>3, <2>6, <2>9 DEF FlatStep
      <3>3. f[n] \in Seq(S)
        BY <2>7, <3>1, <3>2
      <3> QED BY <2>6, <3>3
    <2> QED BY <2>8, <2>9
  <1> QED BY <1>1, <1>2

\* The struggle rescue names a model of the catalog.
LEMMA EscalationIs ==
  ASSUME NEW group, NEW current, NEW exclude, EscalationTarget(group, current, exclude) # <<>>
  PROVE  EscalationTarget(group, current, exclude)[1] \in Models
  <1> DEFINE arms(g) == Keep(Roster[g], Models \ (exclude \cup {current}))
             fit == {g \in DOMAIN Roster : arms(g) # <<>>}
             rungs == [i \in DOMAIN Ladder |-> IF \E j \in 1..i - 1 : group \in Range(Ladder[j]) THEN Ladder[i] ELSE <<>>]
             all == Append(clustersAbove(group), group)
             able == Keep(all, fit)
             G == DOMAIN Roster \cup {group}
  <1>1. rungs \in Seq(Seq(DOMAIN Roster))
    <2>1. Ladder \in Seq(Seq(DOMAIN Roster))
      BY CatalogAssumption
    <2>2. DOMAIN Ladder = 1 .. Len(Ladder) /\ Len(Ladder) \in Nat
      BY <2>1
    <2>3. ASSUME NEW i \in 1 .. Len(Ladder)
          PROVE  rungs[i] \in Seq(DOMAIN Roster)
      <3>1. Ladder[i] \in Seq(DOMAIN Roster)
        BY <2>1, ElementOf
      <3>2. rungs[i] = Ladder[i] \/ rungs[i] = <<>>
        BY <2>2, Zenon
      <3>3. <<>> \in Seq(DOMAIN Roster)
        OBVIOUS
      <3> QED BY <3>1, <3>2, <3>3, Zenon
    <2>4. rungs = [i \in 1 .. Len(Ladder) |-> rungs[i]]
      BY <2>2
    <2> HIDE DEF rungs
    <2> QED BY <2>2, <2>3, <2>4
  <1>2. clustersAbove(group) = FlattenSeq(rungs)
    BY DEF clustersAbove
  <1>3. clustersAbove(group) \in Seq(DOMAIN Roster)
    BY <1>1, <1>2, FlattenType
  <1>4. all \in Seq(G)
    BY <1>3
  <1>5. EscalationTarget(group, current, exclude) =
          IF able = <<>> THEN <<>> ELSE <<Head(arms(Head(able))), Head(able)>>
    BY DEF EscalationTarget
  <1> HIDE DEF all, fit
  <1>6. able \in Seq(G) /\ \A j \in 1 .. Len(able) : able[j] \in fit
    BY <1>4, KeepMembers
  <1>7. able # <<>>
    BY <1>5
  <1>8. Head(able) \in fit
    BY <1>6, <1>7
  <1> DEFINE g == Head(able)
  <1>9. g \in DOMAIN Roster /\ arms(g) # <<>> /\ Roster[g] \in Seq(Models)
    BY <1>8, CatalogAssumption DEF fit
  <1>10. arms(g) \in Seq(Models)
    BY <1>9, KeepMembers
  <1>11. Head(arms(g)) \in Models
    BY <1>9, <1>10
  <1> QED BY <1>5, <1>7, <1>11

\* The struggle rescue is weighed once a session.
LEMMA StruggleCountKeeps ==
  ASSUME IInv, NEW t \in Turns, NEW ok \in BOOLEAN, StruggleCount(t, ok)
  PROVE  Keeps(t)
  <1> DEFINE o == turn[t]
             target == IF o.seen.group = None THEN <<>>
                       ELSE EscalationTarget(o.seen.group, o.seen.model, BaseExcluded(o.q) \cup withdrawn)
             spent == BudgetSpent(ok, "struggle", None)
             act == IF target[2] = o.seen.group THEN "sideways" ELSE "up_cluster"
             v == [o EXCEPT !.pc = "route"]
             record(a) == [o EXCEPT !.pc = "struggleEvent", !.action = a]
             w == [o EXCEPT !.pc = "strugglePin", !.model = target[1], !.group = target[2], !.action = act]
             r == IF spent THEN v
                  ELSE IF o.forced THEN record("user_forced")
                  ELSE IF conf.holdout THEN record("holdout")
                  ELSE IF o.seen.group = None THEN record("no_sideways_target")
                  ELSE IF target = <<>> THEN record("no_eligible_arms")
                  ELSE w
  <1>1. /\ o.pc \in {"struggleCount"} /\ Read(t, ok, r)
        /\ Shaped(o) /\ Holds(t) /\ Active(t)
    BY DEF StruggleCount, IInv, Holds, TurnInv, Active
  <1>2. target # <<>> => target[1] \in Models
    BY EscalationIs
  <1> HIDE DEF target, spent, act
  <1>3. /\ Kept(v, o) /\ v.force = o.force /\ v.pc = "route"
        /\ Kept(w, o) /\ w.force = o.force /\ w.pc = "strugglePin" /\ w.model = target[1]
        /\ \A a : /\ Kept(record(a), o) /\ record(a).force = o.force
                  /\ record(a).pc = "struggleEvent" /\ record(a).action = a
    BY <1>1, Zenon DEF Shaped, Fields, Kept
  <1> HIDE DEF v, w, record
  <1>4. /\ Kept(r, o) /\ r.force = o.force
        /\ r.pc \in {"route", "struggleEvent", "strugglePin"}
        /\ r.pc = "strugglePin" => ~o.forced /\ r.model \in Models
        /\ r.pc = "struggleEvent" => r.action \notin Acted
        /\ r.pc # "route" => ~spent
    <2>1. \/ r = v
          \/ ~spent /\ ~o.forced /\ target # <<>> /\ r = w
          \/ ~spent /\ \E a : a \notin Acted /\ r = record(a)
      BY DEF Acted
    <2> HIDE DEF r
    <2> QED BY <1>2, <1>3, <2>1
  <1> HIDE DEF r
  <1>5. Around(t) /\ StoreInv' /\ EventInv' /\ Became(turn'[t], r, ok)
    <2>1. Quiet(t, ok, r)
      BY <1>1, <1>4, ReadIsQuiet DEF Quiet, Kept
    <2> QED BY <2>1, <1>4, QuietKeeps DEF About, BudgetSpent, Recorded, spent
  <1>6. UNCHANGED <<conf, row, ctl, over, now>>
    BY <1>1, ReadIsQuiet
  <1>7. Holds(t)'
    BY <1>1, <1>4, <1>5, <1>6
    DEF Holds, TurnInv, ClaimInv, RescueInv, Became, Kept, Alone, Forcing, NoRow, None,
        Before, Orders, LoopPCs, StrugglePCs, Routing, After
  <1> QED BY <1>5, <1>7 DEF Keeps

\* The session's force is read where routing begins.
LEMMA RouteControlKeeps ==
  ASSUME IInv, NEW t \in Turns, NEW ok \in BOOLEAN, RouteControl(t, ok)
  PROVE  Keeps(t)
  <1> DEFINE o == turn[t]
             force == IF o.force # None THEN o.force ELSE IF ok /\ Forcing(ctl) THEN ctl.model ELSE None
             next == IF force # None /\ forcedModelRefused(force) THEN "done" ELSE "routeRow"
             cleared == force = None /\ ok /\ ctl.reason = "unforced"
             hard == isHardPinnedTurn(o.q)
             r == [o EXCEPT !.force = force, !.off = withdrawn, !.hard = hard, !.cleared = cleared, !.pc = next]
  <1>1. /\ o.pc \in {"route"} /\ Read(t, ok, r)
        /\ Shaped(o) /\ Holds(t) /\ Active(t)
    BY DEF RouteControl, IInv, Holds, TurnInv, Active
  <1>2. next \in {"done", "routeRow"}
    OBVIOUS
  <1>3. None \notin Models /\ (Forcing(ctl) => ctl.model \in Models)
    BY CatalogAssumption DEF IInv, StoreInv
  <1>8. /\ o.force # None => force = o.force
        /\ o.force = None /\ ok /\ Forcing(ctl) => force = ctl.model
        /\ o.force = None /\ ~Forcing(ctl) => force = None
        /\ cleared => ctl.reason = "unforced"
    OBVIOUS
  <1> HIDE DEF force, next, cleared, hard
  <1>4. /\ Shaped(r) /\ r.q = o.q /\ r.served = o.served /\ r.claim = o.claim
        /\ r.rescue = o.rescue /\ r.faulty = o.faulty /\ r.pin = o.pin
        /\ r.force = force /\ r.cleared = cleared /\ r.pc = next
    BY <1>1, Zenon DEF Shaped, Fields
  <1> HIDE DEF r
  <1>5. Around(t) /\ StoreInv' /\ EventInv' /\ Became(turn'[t], r, ok)
    <2>1. Quiet(t, ok, r)
      BY <1>1, <1>4, ReadIsQuiet DEF Quiet, Kept
    <2> QED BY <2>1, <1>2, <1>4, NotAbout, QuietKeeps
  <1>6. UNCHANGED <<conf, row, ctl, over, now>>
    BY <1>1, ReadIsQuiet
  <1>7. TurnInv(t)'
    BY <1>1, <1>4, <1>5, <1>6, <1>2, <1>3, <1>8
    DEF Holds, TurnInv, Became, Kept, Forcing, NoRow, None,
        Before, Orders, LoopPCs, StrugglePCs, Routing, After
  <1>10. ClaimInv(t)'
    BY <1>1, <1>4, <1>5, <1>6, <1>2, <1>3, <1>8
    DEF Holds, TurnInv, ClaimInv, Became, Kept, Forcing, NoRow, None,
        Before, Orders, LoopPCs, StrugglePCs, Routing, After
  <1>11. RescueInv(t)'
    BY <1>1, <1>4, <1>5, <1>6, <1>2, <1>3, <1>8
    DEF Holds, TurnInv, RescueInv, Became, Kept, Alone, Forcing, NoRow, None,
        Before, Orders, LoopPCs, StrugglePCs, Routing, After
  <1> QED BY <1>5, <1>7, <1>10, <1>11 DEF Keeps, Holds

\* The thread's pin is read after the session's force.
LEMMA RouteRowKeeps ==
  ASSUME IInv, NEW t \in Turns, NEW ok \in BOOLEAN, RouteRow(t, ok)
  PROVE  Keeps(t)
  <1> DEFINE o == turn[t]
             pin == IF ok /\ Live(row) THEN row ELSE NoRow
             legacy == pin.reason = "forced" /\ ~ForceActive(o) /\ ~o.cleared
             used == IF pin.reason = "forced" /\ o.cleared THEN NoRow ELSE pin
             counts == CountsOf(o.q.conv)
             last == replica[o.rep].counts
             trim == last # <<>> /\ prefixTrimmed(Head(last), counts)
             f == IF legacy THEN pin.model ELSE o.force
             a == [o EXCEPT !.pc = "done"]
             b == [o EXCEPT !.pc = "hardPinned", !.force = f]
             c == [o EXCEPT !.pc = "decide", !.pin = used, !.key = TRUE, !.trimmed = trim]
             r == IF legacy /\ forcedModelRefused(pin.model) THEN a ELSE IF o.hard THEN b ELSE c
  <1>1. /\ o.pc \in {"routeRow"} /\ Move(t, ok, r)
        /\ UNCHANGED <<conf, row, ctl, events, over, now>>
        /\ Shaped(o) /\ Holds(t) /\ Active(t)
    BY DEF RouteRow, stores, IInv, Holds, TurnInv, Active
  <1>2. /\ Kept(a, o) /\ a.pc = "done"
        /\ Kept(b, o) /\ b.pc = "hardPinned" /\ b.force = f
    BY <1>1, Zenon DEF Shaped, Fields, Kept
  <1>3. /\ Shaped(c) /\ c.q = o.q /\ c.off = o.off /\ c.hard = o.hard /\ c.served = o.served
        /\ c.claim = o.claim /\ c.rescue = o.rescue /\ c.faulty = o.faulty
        /\ c.pc = "decide" /\ c.pin = used /\ c.force = o.force
    BY <1>1, Zenon DEF Shaped, Fields
  <1>8. /\ now \in Int /\ now <= MaxTime /\ MaxTime \in Int
        /\ row.reason = "forced" => row.model \in Models /\ Live(row)
        /\ row.until \in Int /\ row.until > MaxTime /\ row.reason \in Rescues => Live(row)
    BY CatalogAssumption DEF IInv, StoreInv, Live, Found, Never, None, Rescues
  <1> HIDE DEF a, b, c
  <1>4. /\ Shaped(r) /\ r.q = o.q /\ r.off = o.off /\ r.hard = o.hard /\ r.served = o.served
        /\ r.claim = o.claim /\ r.rescue = o.rescue /\ r.faulty = o.faulty
        /\ r.pc \in {"done", "hardPinned", "decide"}
        /\ r.pc = "hardPinned" => r.force = f /\ o.hard
        /\ r.pc = "decide" => r.pin = used /\ r.force = o.force
        /\ r.pin = used \/ r.pin = o.pin
    BY <1>2, <1>3 DEF Kept
  <1> HIDE DEF r
  <1>5. Around(t) /\ StoreInv' /\ EventInv' /\ Became(turn'[t], r, ok)
    <2>1. Quiet(t, ok, r)
      BY <1>1, <1>4 DEF Quiet, Kept
    <2> QED BY <2>1, <1>4, NotAbout, QuietKeeps
  <1>6. UNCHANGED <<conf, row, ctl, over, now>>
    BY <1>1
  <1>7. Holds(t)'
    BY <1>1, <1>4, <1>5, <1>6, <1>8, CatalogAssumption
    DEF Holds, TurnInv, ClaimInv, RescueInv, Became, Kept, Alone, Forcing, NoRow, None,
        Before, Orders, LoopPCs, StrugglePCs, Routing, After, ForceActive, Rescues
  <1> QED BY <1>5, <1>7 DEF Keeps

\* A turn that has been served is served.
LEMMA AfterHolds ==
  ASSUME NEW t \in Turns, Holds(t), turn[t].pc \in After, NEW r, Kept(r, turn[t]), r.pc \in After \cup {"done"},
         NEW ok \in BOOLEAN, Became(turn'[t], r, ok), UNCHANGED <<conf, ctl, over>>
  PROVE  Holds(t)'
  BY DEF Holds, TurnInv, ClaimInv, RescueInv, Became, Kept, Alone, Displaced, Forcing, NoRow, None,
         Before, Orders, LoopPCs, StrugglePCs, Routing, After

\* A force that can serve the turn serves it.
LEMMA ServeForcedKeeps ==
  ASSUME IInv, NEW t \in Turns, NEW ok \in BOOLEAN, ServeForced(t, ok)
  PROVE  Keeps(t)
  <1> DEFINE o == turn[t]
             k == [o EXCEPT !.key = TRUE]
             r == [Serve(k, k.force, "forced") EXCEPT !.pc = "progress"]
  <1>1. /\ o.pc \in {"hardPinned", "decide"} /\ Move(t, ok, r)
        /\ UNCHANGED <<conf, row, ctl, events, over, now>>
        /\ Shaped(o) /\ Holds(t) /\ Active(t) /\ ForceServes(o)
    BY DEF ServeForced, anchorForceModelHistory, IInv, Holds, TurnInv, Active
  <1>2. Shaped(k) /\ Kept(k, o) /\ k.force = o.force
    BY <1>1, Zenon DEF Shaped, Fields, Kept
  <1> HIDE DEF k
  <1>3. /\ Shaped(r) /\ r.q = k.q /\ r.off = k.off /\ r.hard = k.hard /\ r.claim = k.claim
        /\ r.rescue = k.rescue /\ r.faulty = k.faulty /\ r.pin = k.pin
        /\ r.pc = "progress" /\ r.served = k.force
    BY <1>2, Zenon DEF Shaped, Fields, Serve
  <1>4. /\ Shaped(r) /\ r.q = o.q /\ r.off = o.off /\ r.hard = o.hard /\ r.claim = o.claim
        /\ r.rescue = o.rescue /\ r.faulty = o.faulty /\ r.pin = o.pin
        /\ r.pc = "progress" /\ r.served = o.force
    BY <1>2, <1>3 DEF Kept
  <1> HIDE DEF r
  <1>5. Around(t) /\ StoreInv' /\ EventInv' /\ Became(turn'[t], r, ok)
    <2>1. Quiet(t, ok, r)
      BY <1>1, <1>4 DEF Quiet, Kept
    <2> QED BY <2>1, <1>4, NotAbout, QuietKeeps
  <1>6. UNCHANGED <<conf, row, ctl, over, now>>
    BY <1>1
  <1>7. Holds(t)'
    BY <1>1, <1>4, <1>5, <1>6
    DEF Holds, TurnInv, ClaimInv, RescueInv, Became, Kept, Alone, Forcing, NoRow, None,
        Before, Orders, LoopPCs, StrugglePCs, Routing, After, ForceServes, ForceActive, Displaced
  <1> QED BY <1>5, <1>7 DEF Keeps

\* A utility turn is served by its configured model, unless a force is in place.
LEMMA ServeHardPinKeeps ==
  ASSUME IInv, NEW t \in Turns, ServeHardPin(t)
  PROVE  Keeps(t)
  <1> DEFINE o == turn[t]
             d == [o EXCEPT !.pc = "done"]
             s(m) == [Serve(o, m, "hard_pin") EXCEPT !.pc = "progress"]
  <1>0. PICK r : Read(t, TRUE, r) /\ (r = d \/ \E m : r = s(m))
    BY DEF ServeHardPin
  <1>1. /\ o.pc \in {"hardPinned"} /\ Read(t, TRUE, r) /\ ~ForceServes(o)
        /\ Shaped(o) /\ Holds(t) /\ Active(t)
    BY <1>0 DEF ServeHardPin, IInv, Holds, TurnInv, Active
  <1>2. /\ Kept(d, o) /\ d.pc = "done"
        /\ \A m : /\ Shaped(s(m)) /\ s(m).q = o.q /\ s(m).off = o.off /\ s(m).hard = o.hard
                  /\ s(m).claim = o.claim /\ s(m).rescue = o.rescue /\ s(m).faulty = o.faulty
                  /\ s(m).pin = o.pin /\ s(m).pc = "progress"
    BY <1>1, Zenon DEF Shaped, Fields, Kept, Serve
  <1> HIDE DEF d, s
  <1>4. /\ Shaped(r) /\ r.q = o.q /\ r.off = o.off /\ r.hard = o.hard /\ r.claim = o.claim
        /\ r.rescue = o.rescue /\ r.faulty = o.faulty /\ r.pin = o.pin
        /\ r.pc \in {"progress", "done"}
    BY <1>0, <1>2 DEF Kept
  <1> HIDE DEF d, s
  <1>5. Around(t) /\ StoreInv' /\ EventInv' /\ Became(turn'[t], r, TRUE)
    <2>1. Quiet(t, TRUE, r)
      BY <1>1, <1>4, ReadIsQuiet DEF Quiet, Kept
    <2> QED BY <2>1, <1>4, NotAbout, QuietKeeps
  <1>6. UNCHANGED <<conf, row, ctl, over, now>>
    BY <1>1, ReadIsQuiet
  <1>7. Holds(t)'
    BY <1>1, <1>4, <1>5, <1>6, TakesIs
    DEF Holds, TurnInv, ClaimInv, RescueInv, Became, Kept, Alone, Forcing, NoRow, None,
        Before, Orders, LoopPCs, StrugglePCs, Routing, After, ForceServes, ForceActive, Displaced
  <1> QED BY <1>5, <1>7 DEF Keeps

\* The no-progress and repetition checks.
LEMMA CheckProgressKeeps ==
  ASSUME IInv, NEW t \in Turns, CheckProgress(t)
  PROVE  Keeps(t)
  <1> DEFINE o == turn[t]
             fp == computeNoProgressFingerprint(o.served, o.q.conv)
             ring == replica[o.rep].ring[Bucket(o)]
             tracked == ~conf.authoritative /\ toolBearingTurn(o.q.conv)
             stuck == tracked /\ recordAndDetect(ring, fp, now)
             next == CASE stuck -> IF o.reason = "forced" \/ ~o.key THEN "done" ELSE "breakRead"
                       [] ~stuck /\ RepeatsItself(o) -> "breakExpire"
                       [] OTHER -> IF ShadowReasons(o) = <<>> THEN "done" ELSE "shadow"
             act == IF stuck \/ RepeatsItself(o) THEN "stopped" ELSE None
             r == [o EXCEPT !.pc = next, !.action = act, !.pending = ShadowReasons(o)]
  <1>1. /\ o.pc = "progress" /\ Move(t, TRUE, r) /\ UNCHANGED <<conf, row, ctl, events, over, now>>
        /\ Shaped(o) /\ Holds(t) /\ Active(t)
    BY DEF CheckProgress, stores, IInv, Holds, TurnInv, Active
  <1>2. next \in {"done", "breakRead", "breakExpire", "shadow"}
    BY Zenon
  <1> HIDE DEF next, act
  <1>3. Kept(r, o) /\ r.pc = next
    BY <1>1, Zenon DEF Shaped, Fields, Kept
  <1>4. Kept(r, o) /\ r.pc \in {"done", "breakRead", "breakExpire", "shadow"}
    BY <1>2, <1>3
  <1> HIDE DEF r
  <1>5. Around(t) /\ StoreInv' /\ EventInv' /\ Became(turn'[t], r, TRUE)
    <2>1. Quiet(t, TRUE, r)
      BY <1>1, <1>4 DEF Quiet, Kept
    <2> QED BY <2>1, <1>4, NotAbout, QuietKeeps DEF After
  <1>6. Holds(t)'
    BY <1>1, <1>4, <1>5, AfterHolds DEF After
  <1> QED BY <1>5, <1>6 DEF Keeps

\* A break looks for a force before it expires the pin.
LEMMA BreakReadKeeps ==
  ASSUME IInv, NEW t \in Turns, NEW ok \in BOOLEAN, BreakRead(t, ok)
  PROVE  Keeps(t)
  <1> DEFINE o == turn[t]
             r == [o EXCEPT !.pc = IF ok /\ Live(row) /\ row.reason = "forced" THEN "done" ELSE "breakExpire"]
  <1>1. /\ o.pc = "breakRead" /\ Move(t, ok, r) /\ UNCHANGED <<conf, row, ctl, events, over, now>>
        /\ Shaped(o) /\ Holds(t) /\ Active(t)
    BY ReadIsQuiet DEF BreakRead, stores, IInv, Holds, TurnInv, Active
  <1>4. Kept(r, o) /\ r.pc \in {"done", "breakExpire"}
    BY <1>1, Zenon DEF Shaped, Fields, Kept
  <1> HIDE DEF r
  <1>5. Around(t) /\ StoreInv' /\ EventInv' /\ Became(turn'[t], r, ok)
    <2>1. Quiet(t, ok, r)
      BY <1>1, <1>4 DEF Quiet, Kept
    <2> QED BY <2>1, <1>4, NotAbout, QuietKeeps DEF After
  <1>6. Holds(t)'
    BY <1>1, <1>4, <1>5, AfterHolds DEF After
  <1> QED BY <1>5, <1>6 DEF Keeps

\* The next shadow detector.
LEMMA NextShadowIs ==
  ASSUME NEW r, Shaped(r)
  PROVE  Kept(NextShadow(r), r) /\ NextShadow(r).pc \in {"done", "shadow"}
  BY Zenon DEF NextShadow, Shaped, Fields, Kept

\* A shadow detector that has fired is skipped.
LEMMA ShadowStartKeeps ==
  ASSUME IInv, NEW t \in Turns, ShadowStart(t)
  PROVE  Keeps(t)
  <1> DEFINE o == turn[t]
             w == [o EXCEPT !.pc = "shadowCount"]
             r == IF Head(o.pending) \in replica[o.rep].fired THEN NextShadow(o) ELSE w
  <1>1. /\ o.pc = "shadow" /\ Move(t, TRUE, r) /\ UNCHANGED <<conf, row, ctl, events, over, now>>
        /\ Shaped(o) /\ Holds(t) /\ Active(t)
    BY ReadIsQuiet DEF ShadowStart, stores, IInv, Holds, TurnInv, Active
  <1>2. Kept(w, o) /\ w.pc = "shadowCount"
    BY <1>1, Zenon DEF Shaped, Fields, Kept
  <1>3. Kept(NextShadow(o), o) /\ NextShadow(o).pc \in {"done", "shadow"}
    BY <1>1, NextShadowIs
  <1> HIDE DEF w
  <1>4. Kept(r, o) /\ r.pc \in {"done", "shadow", "shadowCount"}
    BY <1>2, <1>3
  <1> HIDE DEF r
  <1>5. Around(t) /\ StoreInv' /\ EventInv' /\ Became(turn'[t], r, TRUE)
    <2>1. Quiet(t, TRUE, r)
      BY <1>1, <1>4 DEF Quiet, Kept
    <2> QED BY <2>1, <1>4, NotAbout, QuietKeeps DEF After
  <1>6. Holds(t)'
    BY <1>1, <1>4, <1>5, AfterHolds DEF After
  <1> QED BY <1>5, <1>6 DEF Keeps

\* A shadow detector counts its records before it adds one.
LEMMA ShadowCountKeeps ==
  ASSUME IInv, NEW t \in Turns, NEW ok \in BOOLEAN, ShadowCount(t, ok)
  PROVE  Keeps(t)
  <1> DEFINE o == turn[t]
             spent == BudgetSpent(ok, Head(o.pending)[1], Head(o.pending)[2])
             w == [o EXCEPT !.pc = "shadowInsert"]
             r == IF spent THEN NextShadow(o) ELSE w
  <1>1. /\ o.pc = "shadowCount" /\ Move(t, ok, r) /\ UNCHANGED <<conf, row, ctl, events, over, now>>
        /\ Shaped(o) /\ Holds(t) /\ Active(t)
    BY DEF ShadowCount, stores, IInv, Holds, TurnInv, Active
  <1>2. Kept(w, o) /\ w.pc = "shadowInsert" /\ w.pending = o.pending
    BY <1>1, Zenon DEF Shaped, Fields, Kept
  <1>3. Kept(NextShadow(o), o) /\ NextShadow(o).pc \in {"done", "shadow"}
    BY <1>1, NextShadowIs
  <1> HIDE DEF w
  <1>4. /\ Kept(r, o) /\ r.pc \in {"done", "shadow", "shadowInsert"}
        /\ r.pc = "shadowInsert" => r.pending = o.pending /\ ~spent
    BY <1>2, <1>3
  <1> HIDE DEF r
  <1>5. Around(t) /\ StoreInv' /\ EventInv' /\ Became(turn'[t], r, ok)
    <2>1. Quiet(t, ok, r)
      BY <1>1, <1>4 DEF Quiet, Kept
    <2> QED BY <2>1, <1>4, QuietKeeps DEF About, BudgetSpent, Recorded
  <1>6. Holds(t)'
    BY <1>1, <1>4, <1>5, AfterHolds DEF After
  <1> QED BY <1>5, <1>6 DEF Keeps

-----------------------------------------------------------------------------
(* The steps that write the pin.                                            *)

\* What a write leaves in the row.
LEMMA UpsertedIs ==
  ASSUME NEW pin
  PROVE  Upserted(pin).model = pin.model /\ Upserted(pin).reason = pin.reason /\ Upserted(pin).until = pin.until
  BY DEF Upserted

Writes(t, ok, pin, r) ==
  /\ Shaped(r) /\ Active(t) /\ WriteRow(t, ok, pin, r)
  /\ r.faulty = turn[t].faulty /\ (turn[t].rescue # None => r.rescue # None)
  /\ pin.reason = "forced" => pin.model \in Models /\ pin.until = Never

\* A write has the rest to itself: what is left is its own turn.
LEMMA WriteKeeps ==
  ASSUME IInv, NEW t \in Turns, NEW ok \in BOOLEAN, NEW pin, NEW r, Writes(t, ok, pin, r),
         \A e \in events : ok /\ ~turn[t].faulty /\ About(r, e) => {e.by, t} \in over
  PROVE  /\ Around(t) /\ StoreInv' /\ EventInv' /\ Became(turn'[t], r, ok)
         /\ ok => row'.model = pin.model /\ row'.reason = pin.reason /\ row'.until = pin.until
         /\ ~ok => row' = row
         /\ UNCHANGED <<conf, ctl, over, now>>
  <1>1. /\ Around(t) /\ Became(turn'[t], r, ok)
        /\ row' = IF ok THEN Upserted(pin) ELSE row
        /\ UNCHANGED <<conf, ctl, events, over, now>>
    BY WriteAround DEF Writes, IInv
  <1>2. /\ ok => row'.model = pin.model /\ row'.reason = pin.reason /\ row'.until = pin.until
        /\ ~ok => row' = row
    BY <1>1, UpsertedIs
  <1>3. StoreInv'
    BY <1>1, <1>2, StoreKept DEF Writes, IInv, StoreInv
  <1>4. Grows(t)
    BY <1>1 DEF Became, Grows, Writes
  <1>5. ASSUME NEW e \in events, ~turn'[t].faulty, About(turn'[t], e)
        PROVE  {e.by, t} \in over
    <2>1. About(r, e) /\ ok /\ ~turn[t].faulty
      BY <1>1, <1>5 DEF Became, About, Writes
    <2> QED BY <2>1
  <1>6. EventInv'
    BY <1>1, <1>4, <1>5, EventsKept DEF IInv
  <1> QED BY <1>1, <1>2, <1>3, <1>6

\* An order ends a thread's old force, the turn's own claim on it included.
LEMMA ExpireLegacyKeeps ==
  ASSUME IInv, NEW t \in Turns, NEW ok \in BOOLEAN, expireLegacyPin(t, ok)
  PROVE  Keeps(t)
  <1> DEFINE o == turn[t]
             pin == expired("user_unforced")
             w == [o EXCEPT !.pc = "preserve", !.claim = NoClaim]
             r == IF ~ok THEN Disobeyed(o) ELSE w
  <1>1. /\ o.pc \in {"unpin"} /\ WriteRow(t, ok, pin, r)
        /\ Shaped(o) /\ Holds(t) /\ Active(t)
    BY DEF expireLegacyPin, IInv, Holds, TurnInv, Active
  <1>2. /\ Shaped(w) /\ w.q = o.q /\ w.off = o.off /\ w.hard = o.hard /\ w.served = o.served
        /\ w.claim = NoClaim /\ w.rescue = o.rescue /\ w.faulty = o.faulty /\ w.pin = o.pin
        /\ w.force = o.force /\ w.model = o.model /\ w.pc = "preserve"
    BY <1>1, Zenon DEF Shaped, Fields
  <1>3. /\ Kept(Disobeyed(o), o)
        /\ Disobeyed(o).pc \in {"loopRead", "struggleRead", "route", "done", "preserve"}
        /\ Disobeyed(o).pc = "preserve" => Disobeyed(o).model \in Models /\ Disobeyed(o).force = None
    BY <1>1, DisobeyedIs DEF Holds, TurnInv, Orders
  <1> HIDE DEF w
  <1>4. /\ Shaped(r) /\ r.q = o.q /\ r.served = o.served /\ r.rescue = o.rescue /\ r.faulty = o.faulty
        /\ r.pin = o.pin /\ r.pc \in {"loopRead", "struggleRead", "route", "done", "preserve"}
        /\ ok => r.force = o.force /\ r.model = o.model /\ r.pc = "preserve" /\ r.claim = NoClaim
        /\ ~ok => /\ r.claim = o.claim
                  /\ r.pc = "preserve" => r.model \in Models /\ r.force = None
    BY <1>2, <1>3 DEF Kept
  <1>6. pin.reason # "forced"
    BY DEF expired, PinOf
  <1> HIDE DEF r, pin
  <1>5. /\ Around(t) /\ StoreInv' /\ EventInv' /\ Became(turn'[t], r, ok)
        /\ ok => row'.model = pin.model /\ row'.reason = pin.reason /\ row'.until = pin.until
        /\ ~ok => row' = row
        /\ UNCHANGED <<conf, ctl, over, now>>
    <2>1. Writes(t, ok, pin, r)
      BY <1>1, <1>4, <1>6 DEF Writes, Kept
    <2> QED
      BY <2>1, <1>4, NotAbout, WriteKeeps
  <1>7. Holds(t)'
    BY <1>1, <1>4, <1>5, <1>6
    DEF Holds, TurnInv, ClaimInv, RescueInv, Became, Kept, Alone, Forcing, NoRow, None,
        Before, Orders, LoopPCs, StrugglePCs, Routing, After, NoClaim
  <1> QED BY <1>5, <1>7 DEF Keeps

\* The loop rescue pins its model.
LEMMA LoopPinKeeps ==
  ASSUME IInv, NEW t \in Turns, NEW ok \in BOOLEAN, LoopPin(t, ok)
  PROVE  Keeps(t)
  <1> DEFINE o == turn[t]
             pin == PinOf(escalateModel, "loop", None)
             w == [o EXCEPT !.pc = "loopEvent", !.rescue = escalateModel]
             r == IF ok THEN w ELSE AfterLoop(o)
  <1>1. /\ o.pc \in {"loopPin"} /\ WriteRow(t, ok, pin, r)
        /\ Shaped(o) /\ Holds(t) /\ Active(t)
    BY DEF LoopPin, IInv, Holds, TurnInv, Active
  <1>2. /\ Shaped(w) /\ w.q = o.q /\ w.off = o.off /\ w.hard = o.hard /\ w.served = o.served
        /\ w.claim = o.claim /\ w.rescue = escalateModel /\ w.faulty = o.faulty /\ w.pin = o.pin
        /\ w.force = o.force /\ w.pc = "loopEvent"
    BY <1>1, Zenon DEF Shaped, Fields
  <1>3. Same(AfterLoop(o), o) /\ AfterLoop(o).pc \in {"struggleRead", "route"}
    BY <1>1, AfterLoopIs
  <1> HIDE DEF w
  <1>8. escalateModel # None /\ now \in Int /\ Start <= now /\ Start \in Int /\ MaxTime \in Int /\ pinSessionTTL \in Int
    BY CatalogAssumption DEF IInv, StoreInv
  <1>4. /\ Shaped(r) /\ r.q = o.q /\ r.served = o.served /\ r.claim = o.claim /\ r.faulty = o.faulty
        /\ r.pin = o.pin /\ r.force = o.force
        /\ ok => r.pc = "loopEvent" /\ r.rescue = escalateModel
        /\ ~ok => r.pc \in {"struggleRead", "route"} /\ r.rescue = o.rescue
    BY <1>2, <1>3 DEF Same
  <1>6. pin.model = escalateModel /\ pin.reason = "loop" /\ pin.until = now + pinSessionTTL
    BY DEF PinOf
  <1> HIDE DEF r, pin
  <1>5. /\ Around(t) /\ StoreInv' /\ EventInv' /\ Became(turn'[t], r, ok)
        /\ ok => row'.model = pin.model /\ row'.reason = pin.reason /\ row'.until = pin.until
        /\ ~ok => row' = row
        /\ UNCHANGED <<conf, ctl, over, now>>
    <2>1. Writes(t, ok, pin, r)
      BY <1>1, <1>4, <1>6, <1>8 DEF Writes, Kept
    <2> QED
      <3>1. ASSUME NEW e \in events, ok, ~o.faulty, About(r, e)
            PROVE  {e.by, t} \in over
        <4>1. About(o, e)
          BY <1>1, <1>4, <3>1 DEF About
        <4> QED BY <3>1, <4>1 DEF IInv, EventInv
      <3> QED BY <2>1, <3>1, WriteKeeps
  <1>7. Holds(t)'
    BY <1>1, <1>4, <1>5, <1>6, <1>8
    DEF Holds, TurnInv, ClaimInv, RescueInv, Became, Kept, Alone, Forcing, NoRow, None,
        Before, Orders, LoopPCs, StrugglePCs, Routing, After, Timely, Rescues
  <1> QED BY <1>5, <1>7 DEF Keeps

\* The struggle rescue pins its model.
LEMMA StrugglePinKeeps ==
  ASSUME IInv, NEW t \in Turns, NEW ok \in BOOLEAN, StrugglePin(t, ok)
  PROVE  Keeps(t)
  <1> DEFINE o == turn[t]
             pin == PinOf(o.model, "struggle", o.group)
             r == [o EXCEPT !.pc = IF ok THEN "struggleEvent" ELSE "route", !.rescue = IF ok THEN o.model ELSE @]
  <1>1. /\ o.pc \in {"strugglePin"} /\ WriteRow(t, ok, pin, r)
        /\ Shaped(o) /\ Holds(t) /\ Active(t)
    BY DEF StrugglePin, IInv, Holds, TurnInv, Active
  <1>8. /\ None \notin Models /\ o.model \in Models
        /\ now \in Int /\ Start <= now /\ Start \in Int /\ MaxTime \in Int /\ pinSessionTTL \in Int
    BY <1>1, CatalogAssumption DEF IInv, StoreInv, Holds, TurnInv
  <1>4. /\ Shaped(r) /\ r.q = o.q /\ r.served = o.served /\ r.claim = o.claim /\ r.faulty = o.faulty
        /\ r.pin = o.pin /\ r.force = o.force
        /\ r.pc = (IF ok THEN "struggleEvent" ELSE "route") /\ r.rescue = (IF ok THEN o.model ELSE o.rescue)
    BY <1>1, Zenon DEF Shaped, Fields
  <1>6. pin.model = o.model /\ pin.reason = "struggle" /\ pin.until = now + pinSessionTTL
    BY DEF PinOf
  <1> HIDE DEF r, pin
  <1>5. /\ Around(t) /\ StoreInv' /\ EventInv' /\ Became(turn'[t], r, ok)
        /\ ok => row'.model = pin.model /\ row'.reason = pin.reason /\ row'.until = pin.until
        /\ ~ok => row' = row
        /\ UNCHANGED <<conf, ctl, over, now>>
    <2>1. Writes(t, ok, pin, r)
      BY <1>1, <1>4, <1>6, <1>8 DEF Writes, Kept
    <2> QED
      <3>1. ASSUME NEW e \in events, ok, ~o.faulty, About(r, e)
            PROVE  {e.by, t} \in over
        <4>1. About(o, e)
          BY <1>1, <1>4, <3>1 DEF About
        <4> QED BY <3>1, <4>1 DEF IInv, EventInv
      <3> QED BY <2>1, <3>1, WriteKeeps
  <1>7. Holds(t)'
    BY <1>1, <1>4, <1>5, <1>6, <1>8
    DEF Holds, TurnInv, ClaimInv, RescueInv, Became, Kept, Alone, Forcing, NoRow, None,
        Before, Orders, LoopPCs, StrugglePCs, Routing, After, Timely, Rescues
  <1> QED BY <1>5, <1>7 DEF Keeps

\* The pin a turn acts on is the one it read, or none.
LEMMA PinInUseIs ==
  ASSUME NEW r
  PROVE  /\ PinInUse(r) = r.pin \/ PinInUse(r) = NoRow
         /\ r.force = None => PinInUse(r) = r.pin
         /\ NoRow.reason = None
  BY DEF PinInUse, ForceActive, NoRow

\* A forced or rescue pin serves the turn.
LEMMA ServeStickyKeeps ==
  ASSUME IInv, NEW t \in Turns, NEW ok \in BOOLEAN, ServeSticky(t, ok)
  PROVE  Keeps(t)
  <1> DEFINE o == turn[t]
             p == PinInUse(turn[t])
             pin == PinOf(p.model, p.reason, p.group)
             r == [Serve(o, p.model, p.reason) EXCEPT !.pc = "progress"]
  <1>1. /\ o.pc \in {"decide"} /\ WriteRow(t, ok, pin, r) /\ ~ForceServes(o) /\ PinServes(o)
        /\ Shaped(o) /\ Holds(t) /\ Active(t)
    BY DEF ServeSticky, IInv, Holds, TurnInv, Active
  <1>2. /\ p = o.pin \/ p = NoRow
        /\ o.force = None => p = o.pin
        /\ NoRow.reason = None
    BY PinInUseIs
  <1>3. p.reason = "forced" => p.model \in Models
    BY <1>1, <1>2 DEF Holds, TurnInv, None
  <1>8. p.reason = "forced" \/ p.reason \in Rescues
    BY <1>1 DEF PinServes
  <1>9. o.force # None => ~Takes(conf, o.q, o.force)
    BY <1>1, TakesIs DEF ForceServes, ForceActive
  <1> HIDE DEF p
  <1>4. /\ Shaped(r) /\ r.q = o.q /\ r.off = o.off /\ r.hard = o.hard /\ r.claim = o.claim
        /\ r.rescue = o.rescue /\ r.faulty = o.faulty /\ r.pin = o.pin
        /\ r.pc = "progress" /\ r.served = p.model
    BY <1>1, Zenon DEF Shaped, Fields, Serve
  <1>6. pin.model = p.model /\ pin.reason = p.reason /\ (p.reason = "forced" => pin.until = Never)
    BY DEF PinOf
  <1> HIDE DEF r, pin
  <1>5. /\ Around(t) /\ StoreInv' /\ EventInv' /\ Became(turn'[t], r, ok)
        /\ ok => row'.model = pin.model /\ row'.reason = pin.reason /\ row'.until = pin.until
        /\ ~ok => row' = row
        /\ UNCHANGED <<conf, ctl, over, now>>
    <2>1. Writes(t, ok, pin, r)
      BY <1>1, <1>4, <1>6, <1>3 DEF Writes, Kept
    <2> QED
      BY <2>1, <1>4, NotAbout, WriteKeeps
  <1>7. Holds(t)'
    BY <1>1, <1>4, <1>5, <1>6, <1>2, <1>3, <1>8, <1>9
    DEF Holds, TurnInv, ClaimInv, RescueInv, Became, Kept, Alone, Forcing, NoRow, None,
        Before, Orders, LoopPCs, StrugglePCs, Routing, After, Displaced, Rescues
  <1> QED BY <1>5, <1>7 DEF Keeps

\* A rescue pin that cannot serve again is expired.
LEMMA ExpireRescueKeeps ==
  ASSUME IInv, NEW t \in Turns, NEW ok \in BOOLEAN, ExpireRescue(t, ok)
  PROVE  Keeps(t)
  <1> DEFINE o == turn[t]
             pin == expired("escalation_pin")
             p == PinInUse(turn[t])
             r == [o EXCEPT !.pc = "scorer", !.pin = NoRow]
  <1>1. /\ o.pc \in {"decide"} /\ WriteRow(t, ok, pin, r) /\ ~ForceServes(o) /\ DeadRescue(o)
        /\ Shaped(o) /\ Holds(t) /\ Active(t)
    BY DEF ExpireRescue, IInv, Holds, TurnInv, Active
  <1>2. /\ p = o.pin \/ p = NoRow
        /\ o.force = None => p = o.pin
        /\ NoRow.reason = None
    BY PinInUseIs
  <1>3. p.reason \in Rescues /\ (~Fits(conf, o.q, p.model) \/ p.model \in o.off)
    BY <1>1, FitsIs DEF DeadRescue, pinEligible
  <1>9. o.force # None => ~Takes(conf, o.q, o.force)
    BY <1>1, TakesIs DEF ForceServes, ForceActive
  <1> HIDE DEF p
  <1>4. /\ Shaped(r) /\ r.q = o.q /\ r.off = o.off /\ r.hard = o.hard /\ r.served = o.served /\ r.claim = o.claim
        /\ r.rescue = o.rescue /\ r.faulty = o.faulty /\ r.pin = NoRow /\ r.pc = "scorer"
    BY <1>1, Zenon DEF Shaped, Fields
  <1>6. pin.reason # "forced"
    BY DEF expired, PinOf
  <1> HIDE DEF r, pin
  <1>5. /\ Around(t) /\ StoreInv' /\ EventInv' /\ Became(turn'[t], r, ok)
        /\ ok => row'.model = pin.model /\ row'.reason = pin.reason /\ row'.until = pin.until
        /\ ~ok => row' = row
        /\ UNCHANGED <<conf, ctl, over, now>>
    <2>1. Writes(t, ok, pin, r)
      BY <1>1, <1>4, <1>6 DEF Writes, Kept
    <2> QED
      BY <2>1, <1>4, NotAbout, WriteKeeps
  <1>7. Holds(t)'
    BY <1>1, <1>4, <1>5, <1>6, <1>2, <1>3, <1>9
    DEF Holds, TurnInv, ClaimInv, RescueInv, Became, Kept, Alone, Forcing, NoRow, None,
        Before, Orders, LoopPCs, StrugglePCs, Routing, After, Displaced, Rescues
  <1> QED BY <1>5, <1>7 DEF Keeps

\* Routing is reached with nothing that could have served the turn.
LEMMA RoutedPassed ==
  ASSUME NEW t \in Turns, Holds(t),
         \/ turn[t].pc = "scorer"
         \/ /\ turn[t].pc = "decide" /\ ~ForceServes(turn[t])
            /\ ~PinServes(turn[t]) /\ ~DeadRescue(turn[t])
  PROVE  /\ turn[t].claim # NoClaim /\ ~turn[t].faulty => ~Takes(conf, turn[t].q, turn[t].claim.model)
         /\ Timely /\ Alone(t) /\ ~turn[t].faulty /\ turn[t].rescue # None => Displaced(conf, turn[t])
  <1> DEFINE o == turn[t]
             p == PinInUse(turn[t])
  <1>1. CASE o.pc = "scorer"
    BY <1>1 DEF Holds, ClaimInv, RescueInv
  <1>2. CASE /\ o.pc = "decide" /\ ~ForceServes(o) /\ ~PinServes(o)
    <2>1. o.force = None => p = o.pin
      BY PinInUseIs
    <2>2. o.force # None => ~Takes(conf, o.q, o.force)
      BY <1>2, TakesIs DEF ForceServes, ForceActive
    <2>3. p.reason = "forced" => ~Takes(conf, o.q, p.model)
      BY <1>2, TakesIs DEF PinServes, Rescues
    <2>4. p.reason \in Rescues => ~Fits(conf, o.q, p.model) \/ p.model \in o.off
      BY <1>2, FitsIs DEF PinServes, Rescues
    <2> HIDE DEF p
    <2> QED BY <1>2, <2>1, <2>2, <2>3, <2>4 DEF Holds, TurnInv, ClaimInv, RescueInv, Displaced
  <1> QED BY <1>1, <1>2

\* Anything else is the scorer's.
LEMMA RouteKeeps ==
  ASSUME IInv, NEW t \in Turns, NEW ok \in BOOLEAN, RouteAutomatically(t, ok)
  PROVE  Keeps(t)
  <1> DEFINE o == turn[t]
  <1>1. /\ o.pc \in {"decide", "scorer"} /\ Shaped(o) /\ Holds(t) /\ Active(t)
    BY DEF RouteAutomatically, IInv, Holds, TurnInv, Active
  <1>2. /\ o.claim # NoClaim /\ ~o.faulty => ~Takes(conf, o.q, o.claim.model)
        /\ Timely /\ Alone(t) /\ ~o.faulty /\ o.rescue # None => Displaced(conf, o)
    BY <1>1, RoutedPassed DEF RouteAutomatically
  <1>3. CASE ScorerChoices(o) = {}
    <2> DEFINE r == [o EXCEPT !.pc = "done"]
    <2>1. Read(t, TRUE, r) /\ ok = TRUE
      BY <1>3 DEF RouteAutomatically
    <2>2. Kept(r, o) /\ r.pc = "done"
      BY <1>1, Zenon DEF Shaped, Fields, Kept
    <2> HIDE DEF r
    <2>3. Around(t) /\ StoreInv' /\ EventInv' /\ Became(turn'[t], r, TRUE)
      <3>1. Quiet(t, TRUE, r)
        BY <1>1, <2>1, <2>2, ReadIsQuiet DEF Quiet, Kept
      <3> QED BY <3>1, <2>2, NotAbout, QuietKeeps
    <2>4. UNCHANGED <<conf, row, ctl, over, now>>
      BY <2>1, ReadIsQuiet
    <2>5. Holds(t)'
      BY <1>1, <2>2, <2>3, <2>4
      DEF Holds, TurnInv, ClaimInv, RescueInv, Became, Kept, Alone, Forcing, NoRow, None,
          Before, Orders, LoopPCs, StrugglePCs, Routing, After
    <2> QED BY <2>3, <2>5 DEF Keeps
  <1>4. CASE ScorerChoices(o) # {}
    <2>1. PICK m, group : WriteRow(t, ok, PinOf(m, "routed", group),
                                   [Serve(o, m, "routed") EXCEPT !.pc = "progress"])
      BY <1>4, Zenon DEF RouteAutomatically
    <2> DEFINE pin == PinOf(m, "routed", group)
               r == [Serve(o, m, "routed") EXCEPT !.pc = "progress"]
    <2>2. /\ Shaped(r) /\ r.q = o.q /\ r.off = o.off /\ r.hard = o.hard /\ r.claim = o.claim
          /\ r.rescue = o.rescue /\ r.faulty = o.faulty /\ r.pin = o.pin
          /\ r.pc = "progress" /\ r.served = m
      BY <1>1, Zenon DEF Shaped, Fields, Serve
    <2>3. pin.reason # "forced" /\ WriteRow(t, ok, pin, r)
      BY <2>1 DEF PinOf
    <2> HIDE DEF r, pin
    <2>4. /\ Around(t) /\ StoreInv' /\ EventInv' /\ Became(turn'[t], r, ok)
          /\ UNCHANGED <<conf, ctl, over, now>>
      <3>1. Writes(t, ok, pin, r)
        BY <1>1, <2>2, <2>3 DEF Writes
      <3> QED BY <3>1, <2>2, NotAbout, WriteKeeps
    <2>5. Holds(t)'
      BY <1>1, <1>2, <2>2, <2>4
      DEF Holds, TurnInv, ClaimInv, RescueInv, Became, Kept, Alone, Displaced, Forcing, NoRow, None,
          Before, Orders, LoopPCs, StrugglePCs, Routing, After
    <2> QED BY <2>4, <2>5 DEF Keeps
  <1> QED BY <1>3, <1>4

\* A break expires the pin.
LEMMA BreakExpireKeeps ==
  ASSUME IInv, NEW t \in Turns, NEW ok \in BOOLEAN, BreakExpire(t, ok)
  PROVE  Keeps(t)
  <1> DEFINE o == turn[t]
             pin == expired("loop_break")
             r == [o EXCEPT !.pc = "done"]
  <1>1. /\ o.pc \in {"breakExpire"} /\ WriteRow(t, ok, pin, r)
        /\ Shaped(o) /\ Holds(t) /\ Active(t)
    BY DEF BreakExpire, IInv, Holds, TurnInv, Active
  <1>4. Kept(r, o) /\ r.pc = "done"
    BY <1>1, Zenon DEF Shaped, Fields, Kept
  <1>6. pin.reason # "forced"
    BY DEF expired, PinOf
  <1> HIDE DEF r, pin
  <1>5. /\ Around(t) /\ StoreInv' /\ EventInv' /\ Became(turn'[t], r, ok)
        /\ ok => row'.model = pin.model /\ row'.reason = pin.reason /\ row'.until = pin.until
        /\ ~ok => row' = row
        /\ UNCHANGED <<conf, ctl, over, now>>
    <2>1. Writes(t, ok, pin, r)
      BY <1>1, <1>4, <1>6 DEF Writes, Kept
    <2> QED
      BY <2>1, <1>4, NotAbout, WriteKeeps
  <1>7. Holds(t)'
    BY <1>1, <1>4, <1>5, AfterHolds DEF After
  <1> QED BY <1>5, <1>7 DEF Keeps

-----------------------------------------------------------------------------
(* The steps that write the control row.                                    *)

\* What the replaced order served last is noted in the control row.
LEMMA UsageKeeps ==
  ASSUME IInv, NEW t \in Turns, NEW ok \in BOOLEAN, updateControlUsage(t, ok)
  PROVE  Keeps(t)
  <1> DEFINE o == turn[t]
             g == [o EXCEPT !.group = None]
             w == [g EXCEPT !.pc = "control"]
             r == IF ok THEN w ELSE Disobeyed(g)
  <1>1. /\ o.pc = "history" /\ Move(t, ok, r)
        /\ ctl' = (IF ok THEN [ctl EXCEPT !.last = o.group] ELSE ctl)
        /\ UNCHANGED <<conf, row, events, over, now>>
        /\ Shaped(o) /\ Holds(t) /\ Active(t)
    BY DEF updateControlUsage, IInv, Holds, TurnInv, Active
  <1>2. Kept(g, o) /\ Shaped(g) /\ g.force = o.force /\ g.model = o.model
    BY <1>1, Zenon DEF Shaped, Fields, Kept
  <1> HIDE DEF g
  <1>3. Kept(w, g) /\ w.force = g.force /\ w.model = g.model /\ w.pc = "control"
    BY <1>2, Zenon DEF Shaped, Fields, Kept
  <1>4. g.force = None
    BY <1>1, <1>2 DEF Holds, TurnInv, Orders
  <1>5. /\ Kept(Disobeyed(g), g)
        /\ Disobeyed(g).pc \in {"loopRead", "struggleRead", "route", "done", "preserve"}
        /\ Disobeyed(g).pc = "preserve" => Disobeyed(g).model \in Models /\ Disobeyed(g).force = None
    BY <1>2, <1>4, DisobeyedIs
  <1> HIDE DEF w
  <1>6. /\ Kept(r, o)
        /\ ok => r.force = o.force /\ r.model = o.model /\ r.pc = "control"
        /\ ~ok => /\ r.pc \in {"loopRead", "struggleRead", "route", "done", "preserve"}
                  /\ r.pc = "preserve" => r.model \in Models /\ r.force = None
    BY <1>2, <1>3, <1>5 DEF Kept
  <1> HIDE DEF r
  <1>7. /\ ctl' = [model |-> ctl'.model, reason |-> ctl'.reason, last |-> ctl'.last]
        /\ ctl'.model = ctl.model /\ ctl'.reason = ctl.reason
    <2>1. ctl = [model |-> ctl.model, reason |-> ctl.reason, last |-> ctl.last]
      BY DEF IInv, StoreInv
    <2>2. CASE ok
      <3>1. ctl' = [model |-> ctl.model, reason |-> ctl.reason, last |-> o.group]
        BY <1>1, <2>1, <2>2
      <3> QED BY <3>1
    <2>3. CASE ~ok
      BY <1>1, <2>1, <2>3
    <2> QED BY <2>2, <2>3
  <1>8. /\ Became(turn'[t], r, ok) /\ DOMAIN turn' = Turns
        /\ \A u \in Turns : u # t => turn'[u] = turn[u]
    BY <1>1, <1>6, MoveIs DEF IInv, Kept
  <1>9. Around(t)
    BY <1>1, <1>7, <1>8 DEF Around, Spared
  <1>10. StoreInv'
    BY <1>1, <1>7, <1>9, StoreKept DEF IInv, StoreInv, Forcing
  <1>11. EventInv'
    <2>1. Grows(t)
      BY <1>6, <1>8 DEF Grows, Became, Kept
    <2>2. \A e : ~About(turn'[t], e)
      BY <1>6, <1>8, NotAbout DEF Became
    <2> QED BY <1>1, <1>9, <2>1, <2>2, EventsKept DEF IInv
  <1>12. Holds(t)'
    BY <1>1, <1>6, <1>7, <1>8
    DEF Holds, TurnInv, ClaimInv, RescueInv, Became, Kept, Alone, Forcing, NoRow, None,
        Before, Orders, LoopPCs, StrugglePCs, Routing, After
  <1> QED BY <1>9, <1>10, <1>11, <1>12 DEF Keeps

\* An order is the turn's own claim, and ends the others'.
LEMMA SetForceKeeps ==
  ASSUME IInv, NEW t \in Turns, NEW ok \in BOOLEAN, setForceModelSessionPin(t, ok)
  PROVE  Keeps(t)
  <1> DEFINE o == turn[t]
             clear == o.model = "clear"
             f == IF clear THEN None ELSE o.model
             claim == IF clear THEN NoClaim ELSE [by |-> "ctl", model |-> o.model]
             b == Obeyed(o, f)
             w == [b EXCEPT !.claim = claim]
             r == IF ~ok THEN Disobeyed(o) ELSE w
             reason == IF clear THEN "unforced" ELSE "forced"
  <1>1. /\ o.pc = "control" /\ Overrule(t, {"ctl", "row"}, r, ok)
        /\ ctl' = (IF ~ok THEN ctl ELSE [ctl EXCEPT !.model = f, !.reason = reason])
        /\ UNCHANGED <<conf, row, events, over, now>>
        /\ Shaped(o) /\ Holds(t) /\ Active(t)
    BY DEF setForceModelSessionPin, IInv, Holds, TurnInv, Active
  <1>2. o.force = None /\ o.rescue = None /\ o.served = None /\ o.model \in Models \cup {"clear"} /\ None \notin Models
    BY <1>1, CatalogAssumption DEF Holds, TurnInv, Orders, Before
  <1>3. /\ Kept(b, o)
        /\ b.pc \in {"loopRead", "struggleRead", "route", "done", "preserve"}
        /\ b.pc # "done" => b.force = f
        /\ b.pc = "preserve" => b.model \in Models /\ f = None
    BY <1>1, <1>2, ObeyedIs
  <1> HIDE DEF b
  <1>4. /\ Shaped(w) /\ w.q = b.q /\ w.off = b.off /\ w.hard = b.hard /\ w.served = b.served
        /\ w.claim = claim /\ w.rescue = b.rescue /\ w.faulty = b.faulty /\ w.pin = b.pin
        /\ w.force = b.force /\ w.model = b.model /\ w.pc = b.pc
    BY <1>3, Zenon DEF Shaped, Fields, Kept
  <1>5. /\ Kept(Disobeyed(o), o)
        /\ Disobeyed(o).pc \in {"loopRead", "struggleRead", "route", "done", "preserve"}
        /\ Disobeyed(o).pc = "preserve" => Disobeyed(o).model \in Models /\ Disobeyed(o).force = None
    BY <1>1, <1>2, DisobeyedIs
  <1> HIDE DEF w
  <1>6. /\ Shaped(r) /\ r.q = o.q /\ r.served = o.served /\ r.rescue = o.rescue /\ r.faulty = o.faulty
        /\ r.pin = o.pin /\ r.pc \in {"loopRead", "struggleRead", "route", "done", "preserve"}
        /\ ok => /\ r.claim = claim /\ (r.pc # "done" => r.force = f)
                 /\ r.pc = "preserve" => r.model \in Models /\ f = None
        /\ ~ok => /\ r.claim = o.claim
                  /\ r.pc = "preserve" => r.model \in Models /\ r.force = None
    BY <1>3, <1>4, <1>5 DEF Kept
  <1> HIDE DEF r
  <1>7. /\ ctl' = [model |-> ctl'.model, reason |-> ctl'.reason, last |-> ctl'.last]
        /\ ok => ctl'.model = f /\ ctl'.reason = reason
        /\ ~ok => ctl' = ctl
    <2>1. ctl = [model |-> ctl.model, reason |-> ctl.reason, last |-> ctl.last]
      BY DEF IInv, StoreInv
    <2> HIDE DEF f, reason
    <2>2. CASE ok
      <3>1. ctl' = [model |-> f, reason |-> reason, last |-> ctl.last]
        BY <1>1, <2>1, <2>2
      <3> QED BY <3>1, <2>2
    <2>3. CASE ~ok
      BY <1>1, <2>1, <2>3
    <2> QED BY <2>2, <2>3
  <1>8. /\ Became(turn'[t], r, ok) /\ DOMAIN turn' = Turns
        /\ \A u \in Turns : u # t =>
             turn'[u] = IF ok /\ turn[u].claim.by \in {"ctl", "row"}
                        THEN [turn[u] EXCEPT !.claim = NoClaim] ELSE turn[u]
    BY <1>1, <1>6, OverruleIs
  <1>9. ASSUME NEW u \in Turns, u # t
        PROVE  Spared(t, u)
    <2>1. \/ turn'[u] = turn[u] /\ (~ok \/ turn[u].claim.by \notin {"ctl", "row"})
          \/ turn'[u] = [turn[u] EXCEPT !.claim = NoClaim]
      BY <1>8, <1>9
    <2>2. CASE turn'[u] = turn[u] /\ (~ok \/ turn[u].claim.by \notin {"ctl", "row"})
      BY <1>1, <1>7, <2>2 DEF Spared
    <2>3. CASE turn'[u] = [turn[u] EXCEPT !.claim = NoClaim]
      <3>1. turn'[u].claim = NoClaim
        BY <2>3, Zenon DEF IInv, TurnInv, Shaped, Fields
      <3> QED BY <3>1, <2>3 DEF Spared, NoClaim, None
    <2> QED BY <2>1, <2>2, <2>3
  <1>10. Around(t)
    BY <1>1, <1>8, <1>9 DEF Around
  <1>11. Forcing(ctl') => ctl'.model \in Models
    BY <1>2, <1>7 DEF IInv, StoreInv, Forcing
  <1>12. StoreInv'
    BY <1>1, <1>7, <1>10, <1>11, StoreKept DEF IInv, StoreInv
  <1>13. EventInv'
    <2>1. Grows(t)
      BY <1>6, <1>8 DEF Grows, Became
    <2>2. \A e : ~About(turn'[t], e)
      BY <1>6, <1>8, NotAbout DEF Became
    <2> QED BY <1>1, <1>10, <2>1, <2>2, EventsKept DEF IInv
  <1>14. Holds(t)'
    BY <1>1, <1>2, <1>6, <1>7, <1>8
    DEF Holds, TurnInv, ClaimInv, RescueInv, Became, Kept, Alone, NoClaim, Forcing, NoRow, None,
        Before, Orders, LoopPCs, StrugglePCs, Routing, After
  <1> QED BY <1>10, <1>12, <1>13, <1>14 DEF Keeps

-----------------------------------------------------------------------------
(* The steps that record an event.                                          *)

Records(t, ok, e, r) ==
  /\ Shaped(r) /\ Active(t) /\ r.faulty = turn[t].faulty /\ r.rescue = turn[t].rescue
  /\ r.pc \notin {"loopPin", "loopEvent", "strugglePin", "struggleEvent", "shadowInsert"}
  /\ Move(t, ok, r) /\ UNCHANGED <<conf, row, ctl, over, now>>
  /\ events' = Inserted(ok, e)
  /\ e.by = t /\ About(turn[t], e) /\ (e.action \in Acted => turn[t].rescue # None)

\* A record has the rest to itself: what is left is its own turn.
LEMMA RecordKeeps ==
  ASSUME IInv, NEW t \in Turns, NEW ok \in BOOLEAN, NEW e, NEW r, Records(t, ok, e, r)
  PROVE  Around(t) /\ StoreInv' /\ EventInv' /\ Became(turn'[t], r, ok)
  <1>1. Around(t) /\ Became(turn'[t], r, ok)
    BY MoveAround DEF Records, IInv
  <1>2. StoreInv'
    BY <1>1, StoreKept DEF Records, IInv, StoreInv
  <1>3. Grows(t)
    BY <1>1 DEF Became, Grows, Records
  <1>4. \A f : ~About(turn'[t], f)
    BY <1>1, NotAbout DEF Became, Records
  <1>5. CASE ok /\ ~Duplicate(e)
    <2>1. events' = events \cup {e} /\ (e.action \in Acted => turn'[t].rescue # None)
      BY <1>1, <1>5 DEF Records, Inserted, Became
    <2> QED BY <1>1, <1>2, <1>3, <1>4, <1>5, <2>1, EventsGrow DEF IInv, Records
  <1>6. CASE ~ok \/ Duplicate(e)
    <2>1. events' = events
      BY <1>6 DEF Records, Inserted
    <2>2. \A f \in events : ~turn'[t].faulty /\ About(turn'[t], f) => {f.by, t} \in over
      BY <1>4
    <2>3. EventInv /\ StoreInv /\ \A u \in Turns : TurnInv(u)
      BY DEF IInv
    <2> QED BY <1>1, <1>2, <1>3, <2>1, <2>2, <2>3, EventsKept
  <1> QED BY <1>1, <1>2, <1>5, <1>6

\* The loop rescue is recorded.
LEMMA LoopEventKeeps ==
  ASSUME IInv, NEW t \in Turns, NEW ok \in BOOLEAN, LoopEvent(t, ok)
  PROVE  Keeps(t)
  <1> DEFINE o == turn[t]
             e == [table |-> "loop", reason |-> None, action |-> o.action, by |-> t]
             r == AfterLoop(o)
  <1>1. /\ o.pc = "loopEvent" /\ Move(t, ok, r) /\ UNCHANGED <<conf, row, ctl, over, now>>
        /\ events' = Inserted(ok, e)
        /\ Shaped(o) /\ Holds(t) /\ Active(t)
    BY DEF LoopEvent, Insert, IInv, Holds, TurnInv, Active
  <1>2. Same(r, o) /\ r.pc \in {"struggleRead", "route"}
    BY <1>1, AfterLoopIs
  <1>4. Kept(r, o) /\ r.force = o.force /\ r.pc \in {"struggleRead", "route"}
    BY <1>2 DEF Same, Kept
  <1>5. e.by = t /\ About(o, e) /\ (e.action \in Acted => o.rescue # None)
    BY <1>1 DEF About, Holds, TurnInv
  <1> HIDE DEF r, e
  <1>6. Around(t) /\ StoreInv' /\ EventInv' /\ Became(turn'[t], r, ok)
    <2>1. Records(t, ok, e, r)
      BY <1>1, <1>4, <1>5 DEF Records, Kept
    <2> QED BY <2>1, RecordKeeps
  <1>7. Holds(t)'
    BY <1>1, <1>4, <1>6
    DEF Holds, TurnInv, ClaimInv, RescueInv, Became, Kept, Alone, Forcing, NoRow, None,
        Before, Orders, LoopPCs, StrugglePCs, Routing, After
  <1> QED BY <1>6, <1>7 DEF Keeps

\* The struggle rescue is recorded.
LEMMA StruggleEventKeeps ==
  ASSUME IInv, NEW t \in Turns, NEW ok \in BOOLEAN, StruggleEvent(t, ok)
  PROVE  Keeps(t)
  <1> DEFINE o == turn[t]
             e == [table |-> "struggle", reason |-> None, action |-> o.action, by |-> t]
             r == [o EXCEPT !.pc = "route"]
  <1>1. /\ o.pc = "struggleEvent" /\ Move(t, ok, r) /\ UNCHANGED <<conf, row, ctl, over, now>>
        /\ events' = Inserted(ok, e)
        /\ Shaped(o) /\ Holds(t) /\ Active(t)
    BY DEF StruggleEvent, Insert, IInv, Holds, TurnInv, Active
  <1>4. Kept(r, o) /\ r.force = o.force /\ r.pc = "route"
    BY <1>1, Zenon DEF Shaped, Fields, Kept
  <1>5. e.by = t /\ About(o, e) /\ (e.action \in Acted => o.rescue # None)
    BY <1>1 DEF About, Holds, TurnInv
  <1> HIDE DEF r, e
  <1>6. Around(t) /\ StoreInv' /\ EventInv' /\ Became(turn'[t], r, ok)
    <2>1. Records(t, ok, e, r)
      BY <1>1, <1>4, <1>5 DEF Records, Kept
    <2> QED BY <2>1, RecordKeeps
  <1>7. Holds(t)'
    BY <1>1, <1>4, <1>6
    DEF Holds, TurnInv, ClaimInv, RescueInv, Became, Kept, Alone, Forcing, NoRow, None,
        Before, Orders, LoopPCs, StrugglePCs, Routing, After
  <1> QED BY <1>6, <1>7 DEF Keeps

\* A shadow detector is recorded.
LEMMA ShadowInsertKeeps ==
  ASSUME IInv, NEW t \in Turns, NEW ok \in BOOLEAN, ShadowInsert(t, ok)
  PROVE  Keeps(t)
  <1> DEFINE o == turn[t]
             e == [table |-> Head(o.pending)[1], reason |-> Head(o.pending)[2], action |-> "shadow", by |-> t]
             r == NextShadow(o)
  <1>1. /\ o.pc = "shadowInsert" /\ Move(t, ok, r) /\ UNCHANGED <<conf, row, ctl, over, now>>
        /\ events' = Inserted(ok, e)
        /\ Shaped(o) /\ Holds(t) /\ Active(t)
    BY DEF ShadowInsert, IInv, Holds, TurnInv, Active
  <1>4. Kept(r, o) /\ r.pc \in {"done", "shadow"}
    BY <1>1, NextShadowIs
  <1>5. e.by = t /\ About(o, e) /\ (e.action \in Acted => o.rescue # None)
    BY <1>1 DEF About, Acted
  <1> HIDE DEF r, e
  <1>6. Around(t) /\ StoreInv' /\ EventInv' /\ Became(turn'[t], r, ok)
    <2>1. Records(t, ok, e, r)
      BY <1>1, <1>4, <1>5 DEF Records, Kept
    <2> QED BY <2>1, RecordKeeps
  <1>7. Holds(t)'
    BY <1>1, <1>4, <1>6, AfterHolds DEF After
  <1> QED BY <1>6, <1>7 DEF Keeps

-----------------------------------------------------------------------------
(* A turn begins.                                                           *)

\* What a turn makes of its orders before it reads a store.
LEMMA EnteredIs ==
  ASSUME NEW r, Shaped(r), r.force = None
  PROVE  LET n == Entered(r)
         IN  /\ Kept(n, r)
             /\ n.pc \in {"loopRead", "struggleRead", "route", "done", "preserve", "legacy"}
             /\ n.pc # "done" => n.force = None
             /\ n.pc \in {"preserve", "legacy"} => n.model \in Models \cup {"clear"}
  <1> DEFINE v == IF r.q.tool THEN "tool" ELSE "typed"
             c == [r EXCEPT !.via = v, !.model = r.q.cmd]
             l == [c EXCEPT !.pc = "legacy"]
  <1>1. Kept(c, r) /\ Shaped(c) /\ c.force = None /\ c.model = r.q.cmd
    BY Zenon DEF Shaped, Fields, Kept
  <1>2. \/ Entered(r) = applyForceModel(r)
        \/ Entered(r) = Obeyed(c, None)
        \/ Entered(r) = l /\ c.model \in Models \cup {"clear"}
    BY <1>1, SMT DEF Entered, applyForceModelCommand
  <1> HIDE DEF c
  <1>3. Kept(l, c) /\ l.force = c.force /\ l.pc = "legacy" /\ l.model = c.model
    BY <1>1, Zenon DEF Shaped, Fields, Kept
  <1> HIDE DEF l
  <1>4. CASE Entered(r) = applyForceModel(r)
    BY <1>4, ApplyIs
  <1>5. CASE Entered(r) = Obeyed(c, None)
    <2>1. LET n == Obeyed(c, None)
          IN  /\ Kept(n, c)
              /\ n.pc \in {"loopRead", "struggleRead", "route", "done", "preserve"}
              /\ n.pc # "done" => n.force = None
              /\ n.pc = "preserve" => n.model \in Models
      BY <1>1, ObeyedIs
    <2> QED BY <1>1, <1>5, <2>1 DEF Kept
  <1>6. CASE Entered(r) = l /\ c.model \in Models \cup {"clear"}
    BY <1>1, <1>3, <1>6 DEF Kept
  <1> QED BY <1>2, <1>4, <1>5, <1>6

\* A turn that begins claims the force it finds, and overlaps with who runs.
LEMMA BeginKeeps ==
  ASSUME IInv, NEW t \in Turns, Begin(t)
  PROVE  IInv'
  <1> DEFINE claim == IF Forcing(ctl) THEN [by |-> "ctl", model |-> ctl.model]
                      ELSE IF ctl.reason = None /\ Live(row) /\ row.reason = "forced"
                      THEN [by |-> "row", model |-> row.model]
                      ELSE NoClaim
             running == {u \in Turns : turn[u].pc \notin {"idle", "done"}}
  <1>1. PICK q, rep :
          turn' = [turn EXCEPT ![t] = Settled(Entered([Idle EXCEPT !.q = q, !.rep = rep, !.claim = claim]))]
    BY Zenon DEF Begin
  <1>2. /\ turn[t].pc = "idle" /\ over' = over \cup {{t, u} : u \in running}
        /\ UNCHANGED <<conf, row, ctl, events, now>>
    BY DEF Begin, stores
  <1>3. StoreInv /\ EventInv /\ \A u \in Turns : TurnInv(u) /\ ClaimInv(u) /\ RescueInv(u)
    BY DEF IInv
  <1> DEFINE i == [Idle EXCEPT !.q = q, !.rep = rep, !.claim = claim]
  <1>4. /\ Shaped(i) /\ i.force = None /\ i.claim = claim /\ i.served = None /\ i.rescue = None
        /\ i.faulty = FALSE /\ i.pin = NoRow
    <2> HIDE DEF claim
    <2>1. Shaped(i)
      BY IdleShaped, Zenon DEF Shaped, Fields
    <2>2. /\ i.force = None /\ i.claim = claim /\ i.served = None /\ i.rescue = None
          /\ i.faulty = FALSE /\ i.pin = NoRow
      BY DEF Idle
    <2> QED BY <2>1, <2>2
  <1> HIDE DEF i
  <1> DEFINE e == Entered(i)
  <1>5. /\ Kept(e, i)
        /\ e.pc \in {"loopRead", "struggleRead", "route", "done", "preserve", "legacy"}
        /\ e.pc # "done" => e.force = None
        /\ e.pc \in {"preserve", "legacy"} => e.model \in Models \cup {"clear"}
    BY <1>4, EnteredIs
  <1> HIDE DEF e
  <1>6. turn'[t] = Settled(e) /\ DOMAIN turn' = Turns /\ \A u \in Turns : u # t => turn'[u] = turn[u]
    BY <1>1, <1>3 DEF StoreInv, e, i
  <1>7. /\ Shaped(turn'[t]) /\ turn'[t].pc = e.pc /\ turn'[t].served = None /\ turn'[t].claim = claim
        /\ turn'[t].rescue = None /\ turn'[t].faulty = FALSE /\ turn'[t].pin = NoRow
        /\ e.pc # "done" => turn'[t] = e
    BY <1>4, <1>5, <1>6, SettledIs DEF Kept
  <1>8. Holds(t)'
    <2>1. \/ claim = NoClaim
          \/ claim.by = "ctl" /\ Forcing(ctl) /\ claim.model = ctl.model
          \/ claim.by = "row" /\ row.reason = "forced" /\ ctl.reason = None /\ claim.model = row.model
      OBVIOUS
    <2> HIDE DEF claim
    <2> QED
      BY <1>2, <1>5, <1>7, <2>1
      DEF Holds, TurnInv, ClaimInv, RescueInv, NoClaim, Forcing, NoRow, None,
          Before, Orders, LoopPCs, StrugglePCs, Routing, After
  <1>9. ASSUME NEW u \in Turns, u # t
        PROVE  Holds(u)'
    <2>1. turn'[u] = turn[u] /\ (Alone(u)' => Alone(u))
      BY <1>2, <1>6, <1>9 DEF Alone
    <2> QED BY <1>2, <1>3, <2>1 DEF Holds, TurnInv, ClaimInv, RescueInv
  <1>10. StoreInv'
    <2>1. ASSUME NEW u \in Turns, NEW v \in Turns, u # v, Active(u)', Active(v)'
          PROVE  {u, v} \in over'
      <3>1. CASE u # t /\ v # t
        BY <1>2, <1>3, <1>6, <2>1, <3>1 DEF StoreInv, Active
      <3>2. CASE u = t
        <4>1. v \in running
          BY <1>6, <2>1, <3>2 DEF Active
        <4> QED BY <1>2, <3>2, <4>1
      <3>3. CASE v = t
        <4>1. u \in running /\ {u, v} = {t, u}
          BY <1>6, <2>1, <3>3 DEF Active
        <4> QED BY <1>2, <4>1
      <3> QED BY <3>1, <3>2, <3>3
    <2> QED BY <1>2, <1>3, <1>6, <2>1 DEF StoreInv, Never
  <1>11. EventInv'
    <2>1. ASSUME NEW u \in Turns
          PROVE  /\ turn[u].faulty => turn'[u].faulty
                 /\ turn[u].rescue # None => turn'[u].rescue # None
      BY <1>2, <1>3, <1>6 DEF TurnInv
    <2>2. \A f : ~About(turn'[t], f)
      BY <1>5, <1>7, NotAbout
    <2>3. ASSUME NEW u \in Turns, NEW f \in events, ~turn'[u].faulty, About(turn'[u], f)
          PROVE  {f.by, u} \in over
      <3>1. u # t
        BY <2>2, <2>3
      <3> QED BY <1>3, <1>6, <2>3, <3>1 DEF EventInv
    <2>4. over \subseteq over'
      BY <1>2
    <2> QED BY <1>2, <1>3, <2>1, <2>3, <2>4 DEF EventInv
  <1> QED BY <1>8, <1>9, <1>10, <1>11 DEF IInv, Holds

-----------------------------------------------------------------------------
(* The invariant.                                                           *)

\* A step of the surroundings, or none.
LEMMA AsideKeeps ==
  ASSUME IInv, UNCHANGED <<conf, row, ctl, events, turn, over>>, now' \in Start .. MaxTime
  PROVE  IInv'
  <1>1. StoreInv'
    BY DEF IInv, StoreInv, Active, Never
  <1>2. EventInv'
    BY DEF IInv, EventInv
  <1>3. ASSUME NEW u \in Turns
        PROVE  TurnInv(u)' /\ ClaimInv(u)' /\ RescueInv(u)'
    <2>1. TurnInv(u) /\ ClaimInv(u) /\ RescueInv(u)
      BY DEF IInv
    <2>2. Alone(u)' <=> Alone(u)
      BY DEF Alone
    <2> QED BY <2>1, <2>2 DEF TurnInv, ClaimInv, RescueInv
  <1> QED BY <1>1, <1>2, <1>3 DEF IInv

\* A step of a turn that has begun.
LEMMA StoreStepKeeps ==
  ASSUME IInv, NEW t \in Turns, NEW ok \in BOOLEAN, StoreStep(t, ok)
  PROVE  Keeps(t)
  BY ClearLegacyKeeps, ExpireLegacyKeeps, PreserveKeeps, UsageKeeps, SetForceKeeps, LoopReadKeeps,
     LoopControlKeeps, LoopCountKeeps, LoopPinKeeps, LoopEventKeeps, StruggleReadKeeps, StruggleControlKeeps,
     StruggleCountKeeps, StrugglePinKeeps, StruggleEventKeeps, RouteControlKeeps, RouteRowKeeps,
     ServeForcedKeeps, ServeStickyKeeps, ExpireRescueKeeps, RouteKeeps, BreakReadKeeps, BreakExpireKeeps,
     ShadowCountKeeps, ShadowInsertKeeps, Zenon
  DEF StoreStep

\* A turn that takes a step has begun and is not done.
LEMMA StepIsActive ==
  ASSUME NEW t, Step(t)
  PROVE  Active(t)
  BY DEF Step, StoreStep, ServeHardPin, CheckProgress, ShadowStart, clearLegacyForceModelPins,
         expireLegacyPin, preserveForceModelControlHistory, updateControlUsage, setForceModelSessionPin,
         LoopRead, LoopControl, LoopCount, LoopPin, LoopEvent, StruggleRead, StruggleControl, StruggleCount,
         StrugglePin, StruggleEvent, RouteControl, RouteRow, ServeForced, ServeSticky, ExpireRescue,
         RouteAutomatically, BreakRead, BreakExpire, ShadowCount, ShadowInsert, Active

\* What a step keeps for its own turn, it keeps for all.
LEMMA StepKeeps ==
  ASSUME IInv, NEW t \in Turns, Step(t)
  PROVE  IInv'
  <1>1. Keeps(t)
    BY ServeHardPinKeeps, CheckProgressKeeps, ShadowStartKeeps, StoreStepKeeps DEF Step
  <1>2. Active(t)
    BY StepIsActive
  <1>3. ASSUME NEW u \in Turns
        PROVE  Holds(u)'
    <2>1. CASE u = t
      BY <1>1, <2>1 DEF Keeps
    <2>2. CASE u # t
      <3>1. Holds(u) /\ StoreInv
        BY DEF IInv, Holds
      <3> QED BY <1>1, <1>2, <2>2, <3>1, SparedHolds DEF Keeps, Around
    <2> QED BY <2>1, <2>2
  <1> QED BY <1>1, <1>3 DEF IInv, Holds, Keeps

\* Every step keeps the invariant.
LEMMA NextKeeps ==
  ASSUME IInv, [Next]_vars
  PROVE  IInv'
  <1>1. now \in Start .. MaxTime
    BY DEF IInv, StoreInv
  <1>2. ASSUME NEW t \in Turns, Begin(t) \/ Step(t)
        PROVE  IInv'
    BY <1>2, BeginKeeps, StepKeeps
  <1>3. CASE \E p \in Replicas : Forget(p)
    BY <1>1, <1>3, AsideKeeps DEF Forget, stores
  <1>4. CASE Withdraw
    BY <1>1, <1>4, AsideKeeps DEF Withdraw, stores
  <1>5. CASE Tick
    <2>1. conf.ends \in Start .. MaxTime
      BY SettingsAssumption DEF IInv, StoreInv
    <2>2. now' \in Start .. MaxTime
      BY <1>1, <1>5, <2>1, CatalogAssumption DEF Tick
    <2> QED BY <1>5, <2>2, AsideKeeps DEF Tick, stores
  <1>6. CASE UNCHANGED vars
    BY <1>1, <1>6, AsideKeeps DEF vars
  <1> QED BY <1>2, <1>3, <1>4, <1>5, <1>6 DEF Next, Done

\* The invariant holds where a session begins.
LEMMA InitHolds ==
  ASSUME Init
  PROVE  IInv
  <1>1. \A t \in Turns : turn[t] = Idle
    BY DEF Init
  <1>2. StoreInv
    <2>1. /\ conf \in Settings /\ row = conf.row /\ ctl = conf.ctl /\ now = Start /\ DOMAIN turn = Turns
      BY DEF Init
    <2>2. \A t \in Turns : ~Active(t)
      BY <1>1 DEF Active, Idle
    <2>3. now \in Start .. MaxTime
      BY <2>1, CatalogAssumption
    <2> QED BY <2>1, <2>2, <2>3, SettingsAssumption DEF StoreInv
  <1>3. EventInv
    BY DEF Init, EventInv
  <1>4. /\ Idle.pc = "idle" /\ Idle.claim = NoClaim /\ Idle.force = None /\ Idle.rescue = None
        /\ Idle.served = None /\ Idle.pin = NoRow /\ Idle.faulty = FALSE
    BY DEF Idle
  <1>5. ASSUME NEW t \in Turns
        PROVE  TurnInv(t) /\ ClaimInv(t) /\ RescueInv(t)
    BY <1>1, <1>4, IdleShaped
    DEF TurnInv, ClaimInv, RescueInv, NoClaim, NoRow, None,
        Before, Orders, LoopPCs, StrugglePCs, Routing, After
  <1> QED BY <1>2, <1>3, <1>5 DEF IInv

\* What the user forced, no step of the session takes back.
THEOREM ForceIsHonoured == Spec => []ForceHonoured
  <1>1. IInv => ForceHonoured
    <2> SUFFICES ASSUME IInv, NEW t \in Turns, turn[t].pc = "done", turn[t].served # None,
                        turn[t].claim # NoClaim, ~turn[t].faulty
                 PROVE  \/ turn[t].served = turn[t].claim.model
                        \/ ~forcedPinEligible(turn[t].q, turn[t].claim.model)
      BY DEF ForceHonoured
    <2>1. ClaimInv(t)
      BY DEF IInv
    <2> QED BY <2>1, TakesIs DEF ClaimInv
  <1> QED BY <1>1, InitHolds, NextKeeps, PTL DEF Spec

\* A rescue is recorded once, has its pin, and serves the turn that wrote it.
THEOREM RescueIsSound ==
  ASSUME Timely
  PROVE  Spec => []RescueSound
  <1>1. IInv => RescueSound
    <2> SUFFICES ASSUME IInv
                 PROVE  RescueSound
      OBVIOUS
    <2>1. ASSUME NEW t \in Turns, turn[t].pc = "done", turn[t].served # None, turn[t].rescue # None,
                 Alone(t), ~turn[t].faulty
          PROVE  \/ turn[t].served = turn[t].rescue \/ turn[t].hard
                 \/ turn[t].rescue \in turn[t].off \/ ~pinEligible(turn[t].q, turn[t].rescue)
      <3>1. RescueInv(t)
        BY DEF IInv
      <3> QED BY <2>1, <3>1, FitsIs DEF RescueInv, Displaced
    <2>2. EventInv
      BY DEF IInv
    <2> QED BY <2>1, <2>2 DEF RescueSound, EventInv
  <1> QED BY <1>1, InitHolds, NextKeeps, PTL DEF Spec
=============================================================================
