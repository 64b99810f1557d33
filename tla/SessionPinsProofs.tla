-------------------------- MODULE SessionPinsProofs --------------------------
(***************************************************************************)
(* The safety of SessionPins for every catalog, every set of concurrent    *)
(* requests and every bound.  In order: what each statement of             *)
(* session_pins.sql does to a row; the inductive invariant of types and    *)
(* well-formed rows, action by action; then what a request carries from    *)
(* its reads to its writes, and the properties of a turn that rest on it.  *)
(***************************************************************************)
EXTENDS SessionPins, FiniteSetTheorems, TLAPS

-----------------------------------------------------------------------------
(* The statements of session_pins.sql keep a row well formed, for every     *)
(* catalog, provider set and set of strategies.                             *)

\* A GoodRow seen field by field: what the lemmas below use of it.
LEMMA GoodRowFields ==
  ASSUME NEW row, GoodRow(row)
  PROVE  /\ row \in Row
         /\ row # NoRow
         /\ row.audit \in Audit
         /\ row.strategy \in Strategies \cup {Legacy}
         /\ row.upErr \in Nat /\ row.ovErr \in Nat
         /\ row.disabled \in SUBSET Providers
         /\ EvidenceIsolated(row) /\ CompanionsOf(row) /\ LatchOf(row)
  BY NoRowIsNoRow DEF GoodRow, Row

\* sessionpin.Pin{}, what a miss returns, is well formed.
LEMMA ZeroPinGood == GoodRow(ZeroPin)
  BY StoreConstants
     DEF GoodRow, ZeroPin, Row, NoArm, Arm, Audit, NoAudit, Reasons,
         EvidenceIsolated, CompanionsOf, LatchOf

\* The INSERT arm of UpsertSessionPin.
LEMMA InsertedGood ==
  ASSUME NEW pin, GoodPin(pin)
  PROVE  GoodRow(Inserted(pin))
  BY StoreConstants
     DEF GoodPin, Pin, Inserted, GoodRow, ZeroPin, Row, NoArm, Arm, Audit,
         NoAudit, EvidenceIsolated, CompanionsOf, LatchOf

\* The ON CONFLICT arm of UpsertSessionPin.
LEMMA ReplacedGood ==
  ASSUME NEW row, GoodRow(row), NEW pin, GoodPin(pin)
  PROVE  GoodRow(Replaced(row, pin))
<1>1. Replaced(row, pin) \in Row
  BY StoreConstants
     DEF GoodPin, Pin, GoodRow, Row, Audit, NoAudit, Replaced, KeptPair, KeptGroup,
         KeptStrikes, KeptDisabled, UpdatedAudit, SameArm, SameStrategy, NoArm, Arm
<1>2. EvidenceIsolated(Replaced(row, pin))
  BY StoreConstants
     DEF GoodPin, Pin, GoodRow, Row, Audit, NoAudit, Replaced, UpdatedAudit,
         KeptStrikes, SameArm, SameStrategy, EvidenceIsolated
<1>3. CompanionsOf(Replaced(row, pin))
  BY StoreConstants
     DEF GoodPin, Pin, GoodRow, Row, Replaced, KeptPair, KeptGroup, SameArm, NoArm,
         Arm, CompanionsOf
<1>4. LatchOf(Replaced(row, pin))
  BY StoreConstants
     DEF GoodPin, Pin, GoodRow, Row, Audit, NoAudit, Replaced, UpdatedAudit,
         KeptStrikes, SameArm, SameStrategy, LatchOf
<1>. QED BY <1>1, <1>2, <1>3, <1>4 DEF GoodRow

\* UpsertSessionPin: the row after it is well formed and is the caller's pin.
LEMMA UpsertGood ==
  ASSUME NEW row, row = NoRow \/ GoodRow(row), NEW pin, GoodPin(pin)
  PROVE  /\ GoodRow(UpsertSessionPin(row, pin))
         /\ UpsertSessionPin(row, pin).model = pin.model
         /\ UpsertSessionPin(row, pin).provider = pin.provider
         /\ UpsertSessionPin(row, pin).live = pin.live
<1>1. CASE row = NoRow
  BY <1>1, InsertedGood DEF UpsertSessionPin, Inserted, ZeroPin
<1>2. CASE row # NoRow
  <2>1. GoodRow(row)
    BY <1>2
  <2>. QED BY <1>2, <2>1, ReplacedGood DEF UpsertSessionPin, Replaced
<1>. QED BY <1>1, <1>2

\* A statement that leaves the identity of a row alone and changes its audit
\* only by evidence of a strategy that addresses the row keeps it well formed.
LEMMA AddressedEvidence ==
  ASSUME NEW row, GoodRow(row), NEW strategy \in Strategies,
         StrategyMatches(row, strategy)
  PROVE  row.audit.evidence \cup {strategy} \subseteq
           (IF row.strategy = Legacy THEN Strategies \ {Beta} ELSE {row.strategy})
  BY DEF GoodRow, EvidenceIsolated, StrategyMatches, Legacy, Beta

\* UpdateSessionPinUsage: the latch and the provenance of the usage survive.
LEMMA UsageGood ==
  ASSUME NEW row, row = NoRow \/ GoodRow(row), NEW usage \in Usage
  PROVE  LET new == UpdateSessionPinUsage(row, usage) IN
         /\ new = NoRow \/ GoodRow(new)
         /\ row = NoRow => new = NoRow
         /\ row # NoRow => new.model = row.model /\ new.live = row.live
         /\ row # NoRow => new.provider \in {row.provider, usage.provider}
<1>. DEFINE new == UpdateSessionPinUsage(row, usage)
<1>1. CASE ~Addressed(row, usage.strategy)
  BY <1>1 DEF UpdateSessionPinUsage
<1>2. CASE Addressed(row, usage.strategy)
  <2>1. GoodRow(row) /\ StrategyMatches(row, usage.strategy) /\ row # NoRow
    BY <1>2 DEF Addressed
  <2>2. usage.strategy \in Strategies /\ usage.model \in Models
    BY DEF Usage
  <2>3. WithUsage(row.audit, usage) \in Audit
    BY <2>1, <2>2 DEF GoodRow, Row, Audit, WithUsage
  <2>4. Latched(row, usage) \in BOOLEAN
    BY DEF Latched
  <2>5. new \in Row
    BY <1>2, <2>1, <2>3, <2>4 DEF GoodRow, Row, Usage, UpdateSessionPinUsage
  <2>6. /\ new.strategy = row.strategy /\ new.model = row.model /\ new.live = row.live
        /\ new.pair = row.pair /\ new.group = row.group /\ new.provider = usage.provider
        /\ new.lastServed = usage.model /\ new.ever = Latched(row, usage)
        /\ new.audit = WithUsage(row.audit, usage)
    BY <1>2, <2>1 DEF GoodRow, Row, UpdateSessionPinUsage
  <2>7. /\ new.audit.evidence = row.audit.evidence \cup {usage.strategy}
        /\ new.audit.served = row.audit.served \cup {usage.model}
    BY <2>1, <2>6 DEF GoodRow, Row, Audit, WithUsage
  <2>8. EvidenceIsolated(new)
    BY <2>1, <2>2, <2>6, <2>7, AddressedEvidence DEF EvidenceIsolated
  <2>9. CompanionsOf(new)
    BY <2>1, <2>6 DEF GoodRow, CompanionsOf
  <2>10. LatchOf(new)
    BY <2>1, <2>2, <2>6, <2>7, StoreConstants DEF GoodRow, LatchOf, Latched
  <2>. QED BY <2>1, <2>5, <2>6, <2>8, <2>9, <2>10 DEF GoodRow
<1>. QED BY <1>1, <1>2

\* The columns the strike statements leave alone.
Untouched(new, row) ==
    /\ new.model = row.model /\ new.provider = row.provider /\ new.live = row.live
    /\ new.pair = row.pair /\ new.group = row.group /\ new.strategy = row.strategy
    /\ new.lastServed = row.lastServed /\ new.ever = row.ever
    /\ new.audit.served = row.audit.served

\* A row that differs only in its strikes, its disabled providers and their
\* provenance is as well formed as before.
LEMMA UntouchedGood ==
  ASSUME NEW row, GoodRow(row), NEW new \in Row, Untouched(new, row),
         EvidenceIsolated(new)
  PROVE  GoodRow(new)
  BY DEF Untouched, GoodRow, CompanionsOf, LatchOf

\* IncrementSessionPinUpstreamErrors.
LEMMA StrikeGood ==
  ASSUME NEW row, row = NoRow \/ GoodRow(row), NEW strategy \in Strategies,
         NEW anchor \in Models \cup {NoModel}
  PROVE  LET new == IncrementSessionPinUpstreamErrors(row, strategy, anchor) IN
         /\ new = NoRow \/ GoodRow(new)
         /\ row = NoRow => new = NoRow
         /\ row # NoRow => Untouched(new, row)
<1>. DEFINE new == IncrementSessionPinUpstreamErrors(row, strategy, anchor)
<1>1. CASE ~Addressed(row, strategy)
  BY <1>1 DEF IncrementSessionPinUpstreamErrors, Untouched
<1>2. CASE Addressed(row, strategy)
  <2>1. GoodRow(row) /\ StrategyMatches(row, strategy) /\ row # NoRow
    BY <1>2 DEF Addressed
  <2>2. row \in Row /\ row.audit \in Audit /\ row.upErr \in Nat
    BY <2>1, GoodRowFields
  <2>3. row.upErr + 1 \in Nat
    BY <2>2
  <2>4. WithStrike(row.audit, strategy, anchor) \in Audit
    BY <2>2 DEF Audit, WithStrike
  <2>5. new \in Row
    BY <1>2, <2>2, <2>3, <2>4, Zenon DEF Row, IncrementSessionPinUpstreamErrors
  <2>6. new.audit = WithStrike(row.audit, strategy, anchor)
    BY <1>2, <2>2, Zenon DEF Row, IncrementSessionPinUpstreamErrors
  <2>7. new.audit.evidence = row.audit.evidence \cup {strategy}
    BY <2>2, <2>6, Zenon DEF Audit, WithStrike
  <2>8. Untouched(new, row)
    BY <1>2, <2>2, Zenon
       DEF Row, Audit, Untouched, IncrementSessionPinUpstreamErrors, WithStrike
  <2>9. EvidenceIsolated(new)
    BY <2>1, <2>7, <2>8, AddressedEvidence DEF EvidenceIsolated, Untouched
  <2>. QED BY <2>1, <2>5, <2>8, <2>9, UntouchedGood
<1>. QED BY <1>1, <1>2

\* ResetSessionPinUpstreamErrors.
LEMMA ResetStrikesGood ==
  ASSUME NEW row, row = NoRow \/ GoodRow(row), NEW strategy \in Strategies
  PROVE  LET new == ResetSessionPinUpstreamErrors(row, strategy) IN
         /\ new = NoRow \/ GoodRow(new)
         /\ row = NoRow => new = NoRow
         /\ row # NoRow => Untouched(new, row)
<1>. DEFINE new == ResetSessionPinUpstreamErrors(row, strategy)
<1>1. CASE ~(Addressed(row, strategy) /\ row.upErr > 0)
  BY <1>1 DEF ResetSessionPinUpstreamErrors, Untouched
<1>2. CASE Addressed(row, strategy) /\ row.upErr > 0
  <2>1. GoodRow(row) /\ StrategyMatches(row, strategy) /\ row # NoRow
    BY <1>2 DEF Addressed
  <2>2. row \in Row /\ row.audit \in Audit
    BY <2>1, GoodRowFields
  <2>3. 0 \in Nat
    OBVIOUS
  <2>4. WithoutStrikes(row.audit) \in Audit
    BY <2>2 DEF Audit, WithoutStrikes
  <2>5. new \in Row
    BY <1>2, <2>2, <2>3, <2>4, Zenon DEF Row, ResetSessionPinUpstreamErrors
  <2>6. new.audit = WithoutStrikes(row.audit)
    BY <1>2, <2>2, Zenon DEF Row, ResetSessionPinUpstreamErrors
  <2>7. new.audit.evidence = row.audit.evidence
    BY <2>2, <2>6, Zenon DEF Audit, WithoutStrikes
  <2>8. Untouched(new, row)
    BY <1>2, <2>2, Zenon
       DEF Row, Audit, Untouched, ResetSessionPinUpstreamErrors, WithoutStrikes
  <2>9. EvidenceIsolated(new)
    BY <2>1, <2>7, <2>8 DEF EvidenceIsolated, Untouched, GoodRow
  <2>. QED BY <2>1, <2>5, <2>8, <2>9, UntouchedGood
<1>. QED BY <1>1, <1>2

\* IncrementSessionPinOverloadErrors.
LEMMA OverloadGood ==
  ASSUME NEW row, row = NoRow \/ GoodRow(row), NEW strategy \in Strategies,
         NEW provider \in Providers
  PROVE  LET new == IncrementSessionPinOverloadErrors(row, strategy, provider) IN
         /\ new = NoRow \/ GoodRow(new)
         /\ row = NoRow => new = NoRow
         /\ row # NoRow => Untouched(new, row)
<1>. DEFINE new == IncrementSessionPinOverloadErrors(row, strategy, provider)
<1>1. CASE ~(Addressed(row, strategy))
  BY <1>1 DEF IncrementSessionPinOverloadErrors, Untouched
<1>2. CASE Addressed(row, strategy)
  <2>1. GoodRow(row) /\ StrategyMatches(row, strategy) /\ row # NoRow
    BY <1>2 DEF Addressed
  <2>2. row \in Row /\ row.audit \in Audit /\ row.ovErr \in Nat
    BY <2>1, GoodRowFields
  <2>3. row.ovErr + 1 \in Nat
    BY <2>2
  <2>4. WithOverload(row.audit, strategy, provider) \in Audit
    BY <2>2 DEF Audit, WithOverload
  <2>5. new \in Row
    BY <1>2, <2>2, <2>3, <2>4, Zenon DEF Row, IncrementSessionPinOverloadErrors
  <2>6. new.audit = WithOverload(row.audit, strategy, provider)
    BY <1>2, <2>2, Zenon DEF Row, IncrementSessionPinOverloadErrors
  <2>7. new.audit.evidence = row.audit.evidence \cup {strategy}
    BY <2>2, <2>6, Zenon DEF Audit, WithOverload
  <2>8. Untouched(new, row)
    BY <1>2, <2>2, Zenon
       DEF Row, Audit, Untouched, IncrementSessionPinOverloadErrors, WithOverload
  <2>9. EvidenceIsolated(new)
    BY <2>1, <2>7, <2>8, AddressedEvidence DEF EvidenceIsolated, Untouched
  <2>. QED BY <2>1, <2>5, <2>8, <2>9, UntouchedGood
<1>. QED BY <1>1, <1>2

\* ResetSessionPinOverloadErrors.
LEMMA ResetOverloadGood ==
  ASSUME NEW row, row = NoRow \/ GoodRow(row), NEW strategy \in Strategies
  PROVE  LET new == ResetSessionPinOverloadErrors(row, strategy) IN
         /\ new = NoRow \/ GoodRow(new)
         /\ row = NoRow => new = NoRow
         /\ row # NoRow => Untouched(new, row)
<1>. DEFINE new == ResetSessionPinOverloadErrors(row, strategy)
<1>1. CASE ~(Addressed(row, strategy) /\ row.ovErr > 0)
  BY <1>1 DEF ResetSessionPinOverloadErrors, Untouched
<1>2. CASE Addressed(row, strategy) /\ row.ovErr > 0
  <2>1. GoodRow(row) /\ StrategyMatches(row, strategy) /\ row # NoRow
    BY <1>2 DEF Addressed
  <2>2. row \in Row /\ row.audit \in Audit
    BY <2>1, GoodRowFields
  <2>3. 0 \in Nat
    OBVIOUS
  <2>4. WithoutOverloads(row.audit) \in Audit
    BY <2>2 DEF Audit, WithoutOverloads
  <2>5. new \in Row
    BY <1>2, <2>2, <2>3, <2>4, Zenon DEF Row, ResetSessionPinOverloadErrors
  <2>6. new.audit = WithoutOverloads(row.audit)
    BY <1>2, <2>2, Zenon DEF Row, ResetSessionPinOverloadErrors
  <2>7. new.audit.evidence = row.audit.evidence
    BY <2>2, <2>6, Zenon DEF Audit, WithoutOverloads
  <2>8. Untouched(new, row)
    BY <1>2, <2>2, Zenon
       DEF Row, Audit, Untouched, ResetSessionPinOverloadErrors, WithoutOverloads
  <2>9. EvidenceIsolated(new)
    BY <2>1, <2>7, <2>8 DEF EvidenceIsolated, Untouched, GoodRow
  <2>. QED BY <2>1, <2>5, <2>8, <2>9, UntouchedGood
<1>. QED BY <1>1, <1>2

\* DisableSessionPinProvider.
LEMMA DisableGood ==
  ASSUME NEW row, row = NoRow \/ GoodRow(row), NEW strategy \in Strategies,
         NEW provider \in Providers
  PROVE  LET new == DisableSessionPinProvider(row, strategy, provider) IN
         /\ new = NoRow \/ GoodRow(new)
         /\ row = NoRow => new = NoRow
         /\ row # NoRow => Untouched(new, row)
<1>. DEFINE new == DisableSessionPinProvider(row, strategy, provider)
<1>1. CASE ~(Addressed(row, strategy))
  BY <1>1 DEF DisableSessionPinProvider, Untouched
<1>2. CASE Addressed(row, strategy)
  <2>1. GoodRow(row) /\ StrategyMatches(row, strategy) /\ row # NoRow
    BY <1>2 DEF Addressed
  <2>2. row \in Row /\ row.audit \in Audit /\ row.disabled \in SUBSET Providers
    BY <2>1, GoodRowFields
  <2>3. 0 \in Nat
    OBVIOUS
  <2>4. WithDisable(row.audit, strategy) \in Audit
    BY <2>2 DEF Audit, WithDisable
  <2>5. new \in Row
    BY <1>2, <2>2, <2>3, <2>4, Zenon DEF Row, DisableSessionPinProvider
  <2>6. new.audit = WithDisable(row.audit, strategy)
    BY <1>2, <2>2, Zenon DEF Row, DisableSessionPinProvider
  <2>7. new.audit.evidence = row.audit.evidence \cup {strategy}
    BY <2>2, <2>6, Zenon DEF Audit, WithDisable
  <2>8. Untouched(new, row)
    BY <1>2, <2>2, Zenon
       DEF Row, Audit, Untouched, DisableSessionPinProvider, WithDisable
  <2>9. EvidenceIsolated(new)
    BY <2>1, <2>7, <2>8, AddressedEvidence DEF EvidenceIsolated, Untouched
  <2>. QED BY <2>1, <2>5, <2>8, <2>9, UntouchedGood
<1>. QED BY <1>1, <1>2

\* DeleteSessionPin removes the row or leaves it as it is.
LEMMA DeleteGood ==
  ASSUME NEW row, row = NoRow \/ GoodRow(row), NEW strategy
  PROVE  DeleteSessionPin(row, strategy) \in {row, NoRow}
  BY DEF DeleteSessionPin

-----------------------------------------------------------------------------
(* No statement takes a provider back from disabled_providers while the     *)
(* strategy of the row stays the same.                                      *)

KeepsDisabled(new, row) ==
    row # NoRow /\ new # NoRow /\ new.strategy = row.strategy
        => row.disabled \subseteq new.disabled

\* UpsertSessionPin keeps disabled_providers under the same strategy.
LEMMA UpsertKeepsDisabled ==
  ASSUME NEW row, NEW pin
  PROVE  KeepsDisabled(UpsertSessionPin(row, pin), row)
  BY DEF KeepsDisabled, UpsertSessionPin, Replaced, KeptDisabled, SameStrategy

\* So does every in-place statement, DisableSessionPinProvider included.
LEMMA StatementsKeepDisabled ==
  ASSUME NEW row, row = NoRow \/ GoodRow(row), NEW usage, NEW strategy, NEW x
  PROVE  /\ KeepsDisabled(row, row)
         /\ KeepsDisabled(NoRow, row)
         /\ KeepsDisabled(UpdateSessionPinUsage(row, usage), row)
         /\ KeepsDisabled(IncrementSessionPinUpstreamErrors(row, strategy, x), row)
         /\ KeepsDisabled(ResetSessionPinUpstreamErrors(row, strategy), row)
         /\ KeepsDisabled(IncrementSessionPinOverloadErrors(row, strategy, x), row)
         /\ KeepsDisabled(ResetSessionPinOverloadErrors(row, strategy), row)
         /\ KeepsDisabled(DisableSessionPinProvider(row, strategy, x), row)
<1>1. CASE row = NoRow
  BY <1>1 DEF KeepsDisabled
<1>2. CASE row # NoRow
  <2>1. row \in Row
    BY <1>2, GoodRowFields
  <2>2. KeepsDisabled(row, row) /\ KeepsDisabled(NoRow, row)
    BY DEF KeepsDisabled
  <2>3. KeepsDisabled(UpdateSessionPinUsage(row, usage), row)
    BY <2>1, Zenon DEF KeepsDisabled, UpdateSessionPinUsage, Row
  <2>4. KeepsDisabled(IncrementSessionPinUpstreamErrors(row, strategy, x), row)
    BY <2>1, Zenon DEF KeepsDisabled, IncrementSessionPinUpstreamErrors, Row
  <2>5. KeepsDisabled(ResetSessionPinUpstreamErrors(row, strategy), row)
    BY <2>1, Zenon DEF KeepsDisabled, ResetSessionPinUpstreamErrors, Row
  <2>6. KeepsDisabled(IncrementSessionPinOverloadErrors(row, strategy, x), row)
    BY <2>1, Zenon DEF KeepsDisabled, IncrementSessionPinOverloadErrors, Row
  <2>7. KeepsDisabled(ResetSessionPinOverloadErrors(row, strategy), row)
    BY <2>1, Zenon DEF KeepsDisabled, ResetSessionPinOverloadErrors, Row
  <2>8. KeepsDisabled(DisableSessionPinProvider(row, strategy, x), row)
    BY <2>1, Zenon DEF KeepsDisabled, DisableSessionPinProvider, Row
  <2>. QED BY <2>2, <2>3, <2>4, <2>5, <2>6, <2>7, <2>8
<1>. QED BY <1>1, <1>2

\* The latch fact in the form the runs check it.
LEMMA LatchedRow ==
  ASSUME NEW row, GoodRow(row), Cardinality(row.audit.served) > 1
  PROVE  row.ever
<1>. SUFFICES ASSUME ~row.ever PROVE FALSE
  OBVIOUS
<1>1. row.audit.served \subseteq {row.lastServed}
  BY DEF GoodRow, LatchOf
<1>2. row.audit.served = {} \/ row.audit.served = {row.lastServed}
  BY <1>1
<1>3. Cardinality(row.audit.served) \in {0, 1}
  BY <1>2, FS_EmptySet, FS_Singleton
<1>. QED BY <1>3

-----------------------------------------------------------------------------
(* The session: types.                                                      *)

RealArm == [model : Models, provider : Providers]

\* A stored row is well formed, and a live routing pin names a real arm.
GoodAt(role, row) ==
    \/ row = NoRow
    \/ /\ GoodRow(row)
       /\ role = PinRole /\ row.live => ArmOf(row) \in RealArm

\* The rows a request holds are well formed, and what it is about to write
\* through them (the pin it found, its decision, the arm it is charged to)
\* is real.
GoodReq(q) ==
    /\ q \in ReqType
    /\ GoodRow(q.pin) /\ GoodRow(q.hist) /\ GoodRow(q.cont)
    /\ q.found => ArmOf(q.pin) \in RealArm
    /\ q.pc \in {"dispatch", "refusalWrite"} => q.decision \in RealArm
    /\ q.pc \in PostPCs => q.served \in RealArm
    /\ q.return # "refusalWrite"

StoreInv == store \in [Roles -> Row \cup {NoRow}] /\ \A role \in Roles : GoodAt(role, store[role])

ReqInv == req \in [Requests -> ReqType] /\ \A r \in Requests : GoodReq(req[r])

BetaInv == beta \in BOOLEAN /\ (beta => Beta \in Strategies)

CountInv ==
    /\ turns \in Nat /\ commands \in Nat /\ toggles \in Nat /\ lapses \in Nat
    /\ granted \in Nat /\ redeemed \in Nat
    /\ contStale \in BOOLEAN

\* The inductive invariant: what a stored row must be depends on what the
\* requests in flight still hold, and the other way round.
IInv == StoreInv /\ ReqInv /\ BetaInv /\ CountInv

-----------------------------------------------------------------------------
(* The update shapes of a request.                                          *)

\* What a GoodReq offers field by field.
LEMMA GoodReqFields ==
  ASSUME NEW q, GoodReq(q)
  PROVE  /\ q \in ReqType
         /\ q.strategy \in Strategies
         /\ q.pc \in PCs
         /\ q.pin \in Row /\ q.hist \in Row /\ q.cont \in Row
         /\ q.decision \in Arm /\ q.served \in Arm
         /\ q.anchor \in Models \cup {NoModel}
         /\ q.prior \in Models \cup {NoModel} /\ q.ever \in BOOLEAN
         /\ q.disabled \in SUBSET Providers
         /\ q.expire.role \in {PinRole, HistRole}
         /\ q.return \in PostPCs \cup {"idle"}
         /\ stickyStateRole(q) \in {PinRole, HistRole}
  BY DEF GoodReq, ReqType, stickyStateRole

\* Moving on to another step.
LEMMA MovedGood ==
  ASSUME NEW q, GoodReq(q), NEW pc \in PCs,
         pc \in {"dispatch", "refusalWrite"} => q.decision \in RealArm,
         pc \in PostPCs => q.served \in RealArm
  PROVE  GoodReq([q EXCEPT !.pc = pc])
<1>. DEFINE n == [q EXCEPT !.pc = pc]
<1>1. q \in ReqType
  BY GoodReqFields
<1>2. n \in ReqType
  BY <1>1, Zenon DEF ReqType
<1>3. /\ n.pc = pc /\ n.pin = q.pin /\ n.hist = q.hist /\ n.cont = q.cont
      /\ n.found = q.found /\ n.decision = q.decision /\ n.served = q.served
      /\ n.return = q.return
  BY <1>1, Zenon DEF ReqType
<1>. QED BY <1>2, <1>3 DEF GoodReq

\* A slot that has finished.
LEMMA IdleGood == GoodReq(Idle)
<1>1. NoArm \in Arm /\ ZeroPin \in Row
  BY ZeroPinGood DEF NoArm, Arm, GoodRow
<1>2. BaseStrategy \in Strategies
  BY SessionConstants
<1>3. Idle \in ReqType
  BY <1>1, <1>2, Zenon DEF Idle, ReqType, PCs, PinRole, OutcomeKinds
<1>4. /\ Idle.pc = "idle" /\ Idle.pin = ZeroPin /\ Idle.hist = ZeroPin /\ Idle.cont = ZeroPin
      /\ Idle.found = FALSE /\ Idle.return = "idle"
  BY DEF Idle
<1>. QED BY <1>3, <1>4, ZeroPinGood DEF GoodReq, PostPCs

\* A slot that begins a turn, a command or a toggle.
LEMMA BegunGood ==
  ASSUME NEW pc \in {"load", "clearPin"}, NEW kind \in {"main", "tool", "command", "toggle"},
         NEW strategy \in Strategies
  PROVE  GoodReq([Idle EXCEPT !.pc = pc, !.kind = kind, !.strategy = strategy])
<1>. DEFINE n == [Idle EXCEPT !.pc = pc, !.kind = kind, !.strategy = strategy]
<1>1. Idle \in ReqType /\ GoodReq(Idle)
  BY IdleGood DEF GoodReq
<1>2. pc \in PCs
  BY DEF PCs
<1>3. n \in ReqType
  BY <1>1, <1>2, Zenon DEF ReqType
<1>4. /\ n.pc = pc /\ n.pin = Idle.pin /\ n.hist = Idle.hist /\ n.cont = Idle.cont
      /\ n.found = Idle.found /\ n.decision = Idle.decision /\ n.served = Idle.served
      /\ n.return = Idle.return
  BY <1>1, Zenon DEF ReqType
<1>. QED BY <1>1, <1>3, <1>4 DEF GoodReq, PostPCs

\* loadPin.
LEMMA LoadedGood ==
  ASSUME NEW q, GoodReq(q), NEW pin, GoodRow(pin), NEW found \in BOOLEAN,
         found => ArmOf(pin) \in RealArm, NEW pc \in {"grant", "history"}
  PROVE  GoodReq([q EXCEPT !.pin = pin, !.found = found, !.pc = pc])
<1>. DEFINE n == [q EXCEPT !.pin = pin, !.found = found, !.pc = pc]
<1>1. q \in ReqType /\ pc \in PCs /\ pin \in Row
  BY GoodReqFields, GoodRowFields DEF PCs
<1>2. n \in ReqType
  BY <1>1, Zenon DEF ReqType
<1>3. /\ n.pc = pc /\ n.pin = pin /\ n.hist = q.hist /\ n.cont = q.cont
      /\ n.found = found /\ n.return = q.return
  BY <1>1, Zenon DEF ReqType
<1>. QED BY <1>2, <1>3 DEF GoodReq, PostPCs

\* loadHMMHistory.
LEMMA HistoryGood ==
  ASSUME NEW q, GoodReq(q), NEW hist, GoodRow(hist), NEW disabled \in SUBSET Providers,
         NEW prior \in Models \cup {NoModel}, NEW ever \in BOOLEAN,
         NEW pc \in {"consume", "route"}
  PROVE  GoodReq([q EXCEPT !.hist = hist, !.disabled = disabled, !.prior = prior,
                           !.ever = ever, !.pc = pc])
<1>. DEFINE n == [q EXCEPT !.hist = hist, !.disabled = disabled, !.prior = prior,
                           !.ever = ever, !.pc = pc]
<1>1. q \in ReqType /\ pc \in PCs /\ hist \in Row
  BY GoodReqFields, GoodRowFields DEF PCs
<1>2. n \in ReqType
  BY <1>1, Zenon DEF ReqType
<1>3. /\ n.pc = pc /\ n.pin = q.pin /\ n.hist = hist /\ n.cont = q.cont
      /\ n.found = q.found /\ n.return = q.return
  BY <1>1, Zenon DEF ReqType
<1>. QED BY <1>2, <1>3 DEF GoodReq, PostPCs

\* consumePostCommandContinuation.
LEMMA ConsumedGood ==
  ASSUME NEW q, GoodReq(q), NEW cont, GoodRow(cont), NEW found \in BOOLEAN,
         NEW stale \in BOOLEAN
  PROVE  GoodReq([q EXCEPT !.cont = cont, !.contFound = found, !.stale = stale,
                           !.pc = "route"])
<1>. DEFINE n == [q EXCEPT !.cont = cont, !.contFound = found, !.stale = stale,
                           !.pc = "route"]
<1>1. q \in ReqType /\ "route" \in PCs /\ cont \in Row
  BY GoodReqFields, GoodRowFields DEF PCs
<1>2. n \in ReqType
  BY <1>1, Zenon DEF ReqType
<1>3. /\ n.pc = "route" /\ n.pin = q.pin /\ n.hist = q.hist /\ n.cont = cont
      /\ n.found = q.found /\ n.return = q.return
  BY <1>1, Zenon DEF ReqType
<1>. QED BY <1>2, <1>3 DEF GoodReq, PostPCs

\* A decision for a real arm; its later adjustments keep it good.
LEMMA DecidedGood ==
  ASSUME NEW q, GoodReq(q), NEW arm \in RealArm, NEW sticky \in BOOLEAN, NEW hmm \in BOOLEAN
  PROVE  GoodReq(Decided(q, arm, sticky, hmm))
<1>. DEFINE n == Decided(q, arm, sticky, hmm)
<1>1. q \in ReqType /\ "dispatch" \in PCs /\ ZeroPin \in Row
  BY GoodReqFields, ZeroPinGood, GoodRowFields DEF PCs
<1>2. arm \in Arm /\ arm.model \in Models \cup {NoModel}
  BY DEF RealArm, Arm
<1>3. n \in ReqType
  BY <1>1, <1>2, Zenon DEF Decided, ReqType
<1>4. /\ n.pc = "dispatch" /\ n.pin = q.pin /\ n.hist = q.hist /\ n.cont = ZeroPin
      /\ n.found = q.found /\ n.decision = arm /\ n.return = q.return
  BY <1>1, Zenon DEF Decided, ReqType
<1>. HIDE DEF n
<1>5. GoodReq(n)
  BY <1>3, <1>4, ZeroPinGood DEF GoodReq, PostPCs
<1>. QED BY <1>5 DEF n

\* The continuation's evidence, the anchor and the sticky row are set last.
LEMMA AdjustedGood ==
  ASSUME NEW q, GoodReq(q), NEW prior \in Models \cup {NoModel}, NEW ever \in BOOLEAN,
         NEW anchor \in Models \cup {NoModel}, NEW role \in {PinRole, HistRole}
  PROVE  /\ GoodReq([q EXCEPT !.prior = prior, !.ever = ever])
         /\ GoodReq([q EXCEPT !.anchor = anchor])
         /\ GoodReq([q EXCEPT !.anchor = anchor, !.stickyRole = role])
<1>1. q \in ReqType
  BY GoodReqFields
<1>2. ASSUME NEW n \in { [q EXCEPT !.prior = prior, !.ever = ever],
                         [q EXCEPT !.anchor = anchor],
                         [q EXCEPT !.anchor = anchor, !.stickyRole = role] }
      PROVE  /\ n \in ReqType
             /\ n.pc = q.pc /\ n.pin = q.pin /\ n.hist = q.hist /\ n.cont = q.cont
             /\ n.found = q.found /\ n.decision = q.decision /\ n.served = q.served
             /\ n.return = q.return
  <2>1. CASE n = [q EXCEPT !.prior = prior, !.ever = ever]
    BY <1>1, <2>1, Zenon DEF ReqType
  <2>2. CASE n = [q EXCEPT !.anchor = anchor]
    BY <1>1, <2>2, Zenon DEF ReqType
  <2>3. CASE n = [q EXCEPT !.anchor = anchor, !.stickyRole = role]
    BY <1>1, <2>3, Zenon DEF ReqType
  <2>. QED BY <1>2, <2>1, <2>2, <2>3, Zenon
<1>3. ASSUME NEW n \in { [q EXCEPT !.prior = prior, !.ever = ever],
                         [q EXCEPT !.anchor = anchor],
                         [q EXCEPT !.anchor = anchor, !.stickyRole = role] }
      PROVE  GoodReq(n)
  BY <1>2, <1>3, Zenon DEF GoodReq
<1>. QED BY <1>3, Zenon

\* The result of a dispatch.
LEMMA ResultGood ==
  ASSUME NEW q, GoodReq(q), NEW arm \in RealArm, NEW outcome \in OutcomeKinds,
         NEW dead \in BOOLEAN
  PROVE  GoodReq(Result(q, arm, outcome, dead)) /\ Result(q, arm, outcome, dead).served = arm
<1>. DEFINE n == Result(q, arm, outcome, dead)
<1>1. q \in ReqType /\ ZeroPin \in Row /\ arm \in Arm
  BY GoodReqFields, ZeroPinGood, GoodRowFields DEF RealArm, Arm
<1>2. n \in ReqType
  BY <1>1, Zenon DEF ReqType, Result
<1>3. /\ n.pc = q.pc /\ n.pin = ZeroPin /\ n.hist = ZeroPin /\ n.cont = q.cont
      /\ n.found = FALSE /\ n.decision = arm /\ n.served = arm
      /\ n.return = q.return
  BY <1>1, Zenon DEF ReqType, Result
<1>. HIDE DEF n
<1>4. GoodReq(n) /\ n.served = arm
  BY <1>2, <1>3, ZeroPinGood DEF GoodReq
<1>. QED BY <1>4 DEF n

\* The history row of an HMM turn is read, and dropped once it is written back.
LEMMA HistSetGood ==
  ASSUME NEW q, GoodReq(q), NEW hist, GoodRow(hist)
  PROVE  GoodReq([q EXCEPT !.hist = hist]) /\ [q EXCEPT !.hist = hist].served = q.served
<1>. DEFINE n == [q EXCEPT !.hist = hist]
<1>1. q \in ReqType /\ hist \in Row
  BY GoodReqFields, GoodRowFields
<1>2. n \in ReqType
  BY <1>1, Zenon DEF ReqType
<1>3. /\ n.pc = q.pc /\ n.pin = q.pin /\ n.hist = hist /\ n.cont = q.cont
      /\ n.found = q.found /\ n.decision = q.decision /\ n.served = q.served
      /\ n.return = q.return
  BY <1>1, Zenon DEF ReqType
<1>. HIDE DEF n
<1>4. GoodReq(n) /\ n.served = q.served
  BY <1>2, <1>3 DEF GoodReq
<1>. QED BY <1>4, Zenon DEF n

\* readPriorHistory.
LEMMA PriorReadGood ==
  ASSUME NEW q, GoodReq(q), q.served \in RealArm, NEW hist, GoodRow(hist)
  PROVE  GoodReq([q EXCEPT !.pc = "upsertHistory", !.hist = hist])
<1>. DEFINE n == [q EXCEPT !.pc = "upsertHistory", !.hist = hist]
<1>1. q \in ReqType /\ hist \in Row /\ "upsertHistory" \in PCs
  BY GoodReqFields, GoodRowFields DEF PCs, PostPCs
<1>2. n \in ReqType
  BY <1>1, Zenon DEF ReqType
<1>3. /\ n.pc = "upsertHistory" /\ n.pin = q.pin /\ n.hist = hist /\ n.cont = q.cont
      /\ n.found = q.found /\ n.decision = q.decision /\ n.served = q.served
      /\ n.return = q.return
  BY <1>1, Zenon DEF ReqType
<1>. HIDE DEF n
<1>4. GoodReq(n)
  BY <1>2, <1>3 DEF GoodReq
<1>. QED BY <1>4, Zenon DEF n

\* The fallback a refused turn is about to pin.
LEMMA FallbackGood ==
  ASSUME NEW q, GoodReq(q), q.pc \notin {"dispatch", "refusalWrite"}, NEW arm \in Arm
  PROVE  LET n == [q EXCEPT !.decision = arm] IN
         GoodReq(n) /\ n.decision = arm /\ n.served = q.served
<1>. DEFINE n == [q EXCEPT !.decision = arm]
<1>1. q \in ReqType
  BY GoodReqFields
<1>2. n \in ReqType
  BY <1>1, Zenon DEF ReqType
<1>3. /\ n.pc = q.pc /\ n.pin = q.pin /\ n.hist = q.hist /\ n.cont = q.cont
      /\ n.found = q.found /\ n.decision = arm /\ n.served = q.served
      /\ n.return = q.return
  BY <1>1, Zenon DEF ReqType
<1>. HIDE DEF n
<1>4. GoodReq(n) /\ n.decision = arm /\ n.served = q.served
  BY <1>2, <1>3 DEF GoodReq
<1>. QED BY <1>4, Zenon DEF n

\* The steps a post-turn policy may continue with.
Later == (PostPCs \ {"refusalWrite"}) \cup {"idle"}

\* StartExpire.
LEMMA ExpiringGood ==
  ASSUME NEW q, GoodReq(q), q.served \in RealArm, NEW role \in {PinRole, HistRole},
         NEW history \in BOOLEAN, NEW return \in Later
  PROVE  GoodReq([ q EXCEPT !.pc = "mark", !.return = return,
                            !.expire = [role |-> role, history |-> history] ])
<1>. DEFINE expire == [role |-> role, history |-> history]
            n == [q EXCEPT !.pc = "mark", !.return = return, !.expire = expire]
<1>1. q \in ReqType /\ "mark" \in PCs /\ return \in PostPCs \cup {"idle"}
      /\ return # "refusalWrite"
  BY GoodReqFields DEF PCs, PostPCs, Later
<1>2. expire \in [role : {PinRole, HistRole}, history : BOOLEAN]
  OBVIOUS
<1>. HIDE DEF expire
<1>3. n \in ReqType
  BY <1>1, <1>2, Zenon DEF ReqType
<1>4. /\ n.pc = "mark" /\ n.pin = q.pin /\ n.hist = q.hist /\ n.cont = q.cont
      /\ n.found = q.found /\ n.served = q.served /\ n.return = return
  BY <1>1, Zenon DEF ReqType
<1>. HIDE DEF n
<1>5. GoodReq(n)
  BY <1>1, <1>3, <1>4 DEF GoodReq
<1>. QED BY <1>5, Zenon DEF n, expire

\* A clear of the pin only marks the copies other requests hold.
LEMMA OutdatedGood ==
  ASSUME NEW q, GoodReq(q)
  PROVE  GoodReq(Outdated(q))
<1>. DEFINE n == Outdated(q)
<1>1. q \in ReqType /\ q.contFound \in BOOLEAN /\ q.stale \in BOOLEAN
  BY GoodReqFields DEF ReqType
<1>2. ((q.pc = "grant" \/ q.contFound) \/ q.stale) \in BOOLEAN
  OBVIOUS
<1>3. n \in ReqType
  BY <1>1, <1>2, Zenon DEF ReqType, Outdated
<1>4. /\ n.pc = q.pc /\ n.pin = q.pin /\ n.hist = q.hist /\ n.cont = q.cont
      /\ n.found = q.found /\ n.decision = q.decision /\ n.served = q.served
      /\ n.return = q.return
  BY <1>1, Zenon DEF ReqType, Outdated
<1>. HIDE DEF n
<1>5. GoodReq(n)
  BY <1>3, <1>4 DEF GoodReq
<1>. QED BY <1>5 DEF n

\* The post-turn chain never jumps to a write of the refusal fallback.
LEMMA AfterLater ==
  ASSUME NEW q
  PROVE  /\ AfterOverload(q) \in Later /\ AfterDeadArm(q) \in Later
         /\ AfterStrike(q) \in Later /\ AfterDegenerate(q) \in Later
         /\ AfterUsage(q) \in Later /\ AfterDispatch(q) \in Later
<1>1. AfterOverload(q) \in Later
  BY DEF Later, PostPCs, AfterOverload
<1>2. AfterDeadArm(q) \in Later
  BY <1>1 DEF Later, PostPCs, AfterDeadArm
<1>3. AfterStrike(q) \in Later
  BY <1>2 DEF Later, PostPCs, AfterStrike
<1>4. AfterDegenerate(q) \in Later
  BY <1>3 DEF Later, PostPCs, AfterDegenerate
<1>5. AfterUsage(q) \in Later
  BY <1>4 DEF Later, PostPCs, AfterUsage
<1>6. AfterDispatch(q) \in Later
  BY <1>5 DEF Later, PostPCs, AfterDispatch
<1>. QED BY <1>1, <1>2, <1>3, <1>4, <1>5, <1>6

-----------------------------------------------------------------------------
(* The two ways a step changes the state.                                   *)

\* One statement on one row.
LEMMA PutGood ==
  ASSUME StoreInv, NEW role \in Roles, NEW row, GoodAt(role, row), Put(role, row)
  PROVE  StoreInv'
<1>1. row \in Row \cup {NoRow}
  BY DEF GoodAt, GoodRow
<1>2. store' \in [Roles -> Row \cup {NoRow}]
  BY <1>1 DEF StoreInv, Put
<1>3. \A x \in Roles : store'[x] = IF x = role THEN row ELSE store[x]
  BY DEF StoreInv, Put
<1>. QED BY <1>2, <1>3 DEF StoreInv

\* One request moves.
LEMMA BecomeGood ==
  ASSUME ReqInv, NEW r \in Requests, NEW q, GoodReq(q), Become(r, q)
  PROVE  ReqInv'
<1>1. q \in ReqType
  BY GoodReqFields
<1>2. req' \in [Requests -> ReqType]
  BY <1>1 DEF ReqInv, Become
<1>3. \A x \in Requests : req'[x] = IF x = r THEN q ELSE req[x]
  BY DEF ReqInv, Become
<1>. QED BY <1>2, <1>3 DEF ReqInv

\* One request moves along the post-turn chain.
LEMMA ContinueGood ==
  ASSUME ReqInv, NEW r \in Requests, NEW q, GoodReq(q), q.served \in RealArm,
         NEW pc \in Later, Continue(r, q, pc)
  PROVE  ReqInv'
<1>1. CASE pc = "idle"
  BY <1>1, IdleGood, BecomeGood DEF Continue
<1>2. CASE pc # "idle"
  <2>1. pc \in PostPCs \ {"refusalWrite"}
    BY <1>2 DEF Later
  <2>2. pc \in PCs /\ pc # "dispatch"
    BY <2>1 DEF PCs, PostPCs
  <2>. DEFINE n == [q EXCEPT !.pc = pc]
  <2>3. GoodReq(n)
    BY <2>1, <2>2, MovedGood, Zenon
  <2>4. Become(r, n)
    BY <1>2, Zenon DEF Continue
  <2>. HIDE DEF n
  <2>. QED BY <2>3, <2>4, BecomeGood
<1>. QED BY <1>1, <1>2

\* One request begins to expire a pin.
LEMMA StartExpireGood ==
  ASSUME ReqInv, NEW r \in Requests, NEW q, GoodReq(q), q.served \in RealArm,
         NEW role \in {PinRole, HistRole}, NEW history \in BOOLEAN, NEW return \in Later,
         StartExpire(r, q, role, history, return)
  PROVE  ReqInv'
<1>. DEFINE n == [ q EXCEPT !.pc = "mark", !.return = return,
                            !.expire = [role |-> role, history |-> history] ]
<1>1. GoodReq(n)
  BY ExpiringGood, Zenon
<1>2. Become(r, n)
  BY Zenon DEF StartExpire
<1>. HIDE DEF n
<1>. QED BY <1>1, <1>2, BecomeGood

-----------------------------------------------------------------------------
(* The statements on a stored row.                                          *)

\* UpsertSessionPin of a pin that is real whenever it is a live routing pin.
LEMMA UpsertAt ==
  ASSUME StoreInv, NEW role \in Roles, NEW pin, GoodPin(pin),
         role = PinRole /\ pin.live => ArmOf(pin) \in RealArm
  PROVE  GoodAt(role, UpsertSessionPin(store[role], pin))
<1>1. store[role] = NoRow \/ GoodRow(store[role])
  BY DEF StoreInv, GoodAt
<1>. DEFINE n == UpsertSessionPin(store[role], pin)
<1>2. GoodRow(n) /\ n.model = pin.model /\ n.provider = pin.provider /\ n.live = pin.live
  BY <1>1, UpsertGood
<1>. HIDE DEF n
<1>3. GoodAt(role, n)
  BY <1>2 DEF GoodAt, ArmOf
<1>. QED BY <1>3 DEF n

\* DeleteSessionPin.
LEMMA DeleteAt ==
  ASSUME StoreInv, NEW role \in Roles, NEW strategy
  PROVE  GoodAt(role, DeleteSessionPin(store[role], strategy))
  BY DEF StoreInv, GoodAt, DeleteSessionPin

\* UpdateSessionPinUsage.
LEMMA UsageAt ==
  ASSUME StoreInv, NEW role \in Roles, NEW usage \in Usage
  PROVE  GoodAt(role, UpdateSessionPinUsage(store[role], usage))
<1>. DEFINE row == store[role]
            n   == UpdateSessionPinUsage(row, usage)
<1>1. GoodAt(role, row)
  BY DEF StoreInv
<1>2. row = NoRow \/ GoodRow(row)
  BY <1>1 DEF GoodAt
<1>. HIDE DEF row
<1>3. /\ n = NoRow \/ GoodRow(n)
      /\ row = NoRow => n = NoRow
      /\ row # NoRow => n.model = row.model /\ n.live = row.live
      /\ row # NoRow => n.provider \in {row.provider, usage.provider}
  BY <1>2, UsageGood
<1>. HIDE DEF n
<1>4. usage.provider \in Providers
  BY DEF Usage
<1>5. GoodAt(role, n)
  BY <1>1, <1>3, <1>4 DEF GoodAt, ArmOf, RealArm
<1>. QED BY <1>5 DEF n, row

\* A statement that leaves the pinned arm and its expiry alone.
LEMMA UntouchedAt ==
  ASSUME NEW role, NEW row, GoodAt(role, row), NEW n, n = NoRow \/ GoodRow(n),
         row = NoRow => n = NoRow, row # NoRow => Untouched(n, row)
  PROVE  GoodAt(role, n)
  BY DEF GoodAt, Untouched, ArmOf

\* The strike and disable statements.
LEMMA StrikesAt ==
  ASSUME StoreInv, NEW role \in Roles, NEW strategy \in Strategies,
         NEW anchor \in Models \cup {NoModel}, NEW provider \in Providers
  PROVE  /\ GoodAt(role, IncrementSessionPinUpstreamErrors(store[role], strategy, anchor))
         /\ GoodAt(role, ResetSessionPinUpstreamErrors(store[role], strategy))
         /\ GoodAt(role, IncrementSessionPinOverloadErrors(store[role], strategy, provider))
         /\ GoodAt(role, ResetSessionPinOverloadErrors(store[role], strategy))
         /\ GoodAt(role, DisableSessionPinProvider(store[role], strategy, provider))
<1>1. GoodAt(role, store[role])
  BY DEF StoreInv
<1>2. store[role] = NoRow \/ GoodRow(store[role])
  BY <1>1 DEF GoodAt
<1>3. GoodAt(role, IncrementSessionPinUpstreamErrors(store[role], strategy, anchor))
  BY <1>1, <1>2, StrikeGood, UntouchedAt
<1>4. GoodAt(role, ResetSessionPinUpstreamErrors(store[role], strategy))
  BY <1>1, <1>2, ResetStrikesGood, UntouchedAt
<1>5. GoodAt(role, IncrementSessionPinOverloadErrors(store[role], strategy, provider))
  BY <1>1, <1>2, OverloadGood, UntouchedAt
<1>6. GoodAt(role, ResetSessionPinOverloadErrors(store[role], strategy))
  BY <1>1, <1>2, ResetOverloadGood, UntouchedAt
<1>7. GoodAt(role, DisableSessionPinProvider(store[role], strategy, provider))
  BY <1>1, <1>2, DisableGood, UntouchedAt
<1>. QED BY <1>3, <1>4, <1>5, <1>6, <1>7

-----------------------------------------------------------------------------
(* Arrival and the /beta cleanup.                                           *)

\* The strategy a request runs under.
LEMMA StrategyGood ==
  ASSUME BetaInv
  PROVE  Strategy \in Strategies
  BY SessionConstants DEF BetaInv, Strategy

\* BeginTurn, BeginCommand and ToggleBeta.
LEMMA ArriveGood ==
  ASSUME IInv, NEW r \in Requests, Arrive(r)
  PROVE  IInv'
<1>. USE DEF IInv
<1>1. CASE BeginTurn(r)
  <2>1. PICK kind \in TurnKinds :
          Become(r, [Idle EXCEPT !.pc = "load", !.kind = kind, !.strategy = Strategy])
    BY <1>1, Zenon DEF BeginTurn
  <2>2. kind \in {"main", "tool", "command", "toggle"}
    BY SessionConstants
  <2>3. GoodReq([Idle EXCEPT !.pc = "load", !.kind = kind, !.strategy = Strategy])
    BY <2>2, BegunGood, StrategyGood, Zenon
  <2>4. ReqInv'
    BY <2>1, <2>3, BecomeGood, Zenon
  <2>. QED BY <1>1, <2>4 DEF BeginTurn, StoreInv, BetaInv, CountInv, History
<1>2. CASE BeginCommand(r)
  <2>1. GoodReq([Idle EXCEPT !.pc = "load", !.kind = "command", !.strategy = Strategy])
    BY BegunGood, StrategyGood, Zenon
  <2>2. ReqInv'
    BY <1>2, <2>1, BecomeGood, Zenon DEF BeginCommand
  <2>. QED BY <1>2, <2>2 DEF BeginCommand, StoreInv, BetaInv, CountInv, History
<1>3. CASE ToggleBeta(r)
  <2>1. GoodReq([Idle EXCEPT !.pc = "clearPin", !.kind = "toggle", !.strategy = Strategy])
    BY BegunGood, StrategyGood, Zenon
  <2>2. ReqInv'
    BY <1>3, <2>1, BecomeGood, Zenon DEF ToggleBeta
  <2>. QED BY <1>3, <2>2 DEF ToggleBeta, StoreInv, BetaInv, CountInv, History
<1>. QED BY <1>1, <1>2, <1>3 DEF Arrive

\* invalidateSessionRoutingState.
LEMMA CleanGood ==
  ASSUME IInv, NEW r \in Requests, InvalidateRoutingState(r)
  PROVE  IInv'
<1>1. PICK from \in PCs, role \in Roles, to \in {"clearHistory", "clearContinuation", "idle"} :
        CleanRole(r, from, role, to)
  <2>1. {"clearPin", "clearHistory", "clearContinuation"} \subseteq PCs
        /\ {PinRole, HistRole, "cont"} \subseteq Roles
    BY DEF PCs, Roles, PinRole, HistRole
  <2>. QED BY <2>1 DEF InvalidateRoutingState
<1>2. StoreInv'
  BY <1>1, DeleteAt, PutGood DEF CleanRole, IInv
<1>3. GoodReq(req[r])
  BY DEF IInv, ReqInv
<1>4. ReqInv'
  <2>1. CASE to = "idle"
    BY <1>1, <2>1, IdleGood, BecomeGood DEF CleanRole, Done, IInv
  <2>2. CASE to # "idle"
    <3>1. to \in PCs /\ to \notin PostPCs /\ to \notin {"dispatch", "refusalWrite"}
      BY <2>2 DEF PCs, PostPCs
    <3>. DEFINE n == [req[r] EXCEPT !.pc = to]
    <3>2. GoodReq(n)
      BY <1>3, <3>1, MovedGood, Zenon
    <3>3. Become(r, n)
      BY <1>1, <2>2, Zenon DEF CleanRole, Go
    <3>. HIDE DEF n
    <3>. QED BY <3>2, <3>3, BecomeGood DEF IInv
  <2>. QED BY <2>1, <2>2
<1>. QED BY <1>1, <1>2, <1>4 DEF CleanRole, IInv, BetaInv, CountInv, Bounds, History

-----------------------------------------------------------------------------
(* What a turn reads.                                                       *)

\* loadPin.
LEMMA LoadPinKeeps ==
  ASSUME IInv, NEW r \in Requests, loadPin(r)
  PROVE  IInv'
<1>. DEFINE q     == req[r]
            row   == store[PinRole]
            hit   == Addressed(row, q.strategy)
            pin   == IF hit THEN row ELSE ZeroPin
            found == hit /\ row.live
            pc    == IF q.kind = "command" THEN "grant" ELSE "history"
            n     == [q EXCEPT !.pin = pin, !.found = found, !.pc = pc]
<1>1. Become(r, n) /\ UNCHANGED <<store, beta, Bounds, History>>
  BY Zenon DEF loadPin
<1>2. GoodReq(q) /\ GoodAt(PinRole, row)
  BY DEF IInv, ReqInv, StoreInv, Roles, PinRole
<1>3. GoodRow(pin) /\ (found => ArmOf(pin) \in RealArm)
  BY <1>2, ZeroPinGood DEF Addressed, GoodAt
<1>4. found \in BOOLEAN /\ pc \in {"grant", "history"}
  BY <1>2 DEF Addressed, GoodAt, GoodRow, Row
<1>. HIDE DEF q, pin, found, pc
<1>5. GoodReq(n)
  BY <1>2, <1>3, <1>4, LoadedGood, Zenon
<1>. HIDE DEF n
<1>6. ReqInv'
  BY <1>1, <1>5, BecomeGood DEF IInv
<1>. QED BY <1>1, <1>6 DEF IInv, StoreInv, BetaInv, CountInv, Bounds, History

\* The switch evidence of two rows is typed.
LEMMA EvidenceTyped ==
  ASSUME NEW a, GoodRow(a), NEW b, GoodRow(b)
  PROVE  /\ PriorServed(a, b) \in Models \cup {NoModel}
         /\ EverSwitched(a, b) \in BOOLEAN
         /\ a.disabled \cup b.disabled \in SUBSET Providers
  BY DEF GoodRow, Row, PriorServed, EverSwitched

\* loadHMMHistory.
LEMMA LoadHistoryKeeps ==
  ASSUME IInv, NEW r \in Requests, loadHMMHistory(r)
  PROVE  IInv'
<1>. DEFINE q        == req[r]
            row      == store[HistRole]
            hist     == IF Addressed(row, q.strategy) THEN row ELSE ZeroPin
            disabled == q.pin.disabled \cup hist.disabled
            prior    == PriorServed(q.pin, hist)
            ever     == EverSwitched(q.pin, hist)
            pc       == IF q.kind = "main" THEN "consume" ELSE "route"
            n        == [ q EXCEPT !.hist = hist, !.disabled = disabled, !.prior = prior,
                                   !.ever = ever, !.pc = pc ]
<1>1. Become(r, n) /\ UNCHANGED <<store, beta, Bounds, History>>
  BY Zenon DEF loadHMMHistory
<1>2. GoodReq(q) /\ GoodAt(HistRole, row)
  BY DEF IInv, ReqInv, StoreInv, Roles, HistRole
<1>3. GoodRow(hist) /\ GoodRow(q.pin)
  BY <1>2, ZeroPinGood DEF Addressed, GoodAt, GoodReq
<1>. HIDE DEF q, hist
<1>4. /\ prior \in Models \cup {NoModel} /\ ever \in BOOLEAN /\ pc \in {"consume", "route"}
      /\ disabled \in SUBSET Providers
  BY <1>3, EvidenceTyped
<1>. HIDE DEF disabled, prior, ever, pc
<1>5. GoodReq(n)
  BY <1>2, <1>3, <1>4, HistoryGood, Zenon
<1>. HIDE DEF n
<1>6. ReqInv'
  BY <1>1, <1>5, BecomeGood DEF IInv
<1>. QED BY <1>1, <1>6 DEF IInv, StoreInv, BetaInv, CountInv, Bounds, History

\* consumePostCommandContinuation.
LEMMA ConsumeKeeps ==
  ASSUME IInv, NEW r \in Requests, consumePostCommandContinuation(r)
  PROVE  IInv'
<1>. DEFINE q     == req[r]
            row   == store["cont"]
            hit   == Consumable(row, q.strategy)
            cont  == IF hit THEN row ELSE ZeroPin
            stale == hit /\ contStale
            n     == [q EXCEPT !.cont = cont, !.contFound = hit, !.stale = stale, !.pc = "route"]
<1>1. /\ Become(r, n) /\ Put("cont", DeleteSessionPin(row, q.strategy))
      /\ contStale' = (contStale /\ ~hit)
      /\ UNCHANGED <<beta, Bounds, granted, redeemed>>
  BY Zenon DEF consumePostCommandContinuation
<1>2. GoodReq(q) /\ GoodAt("cont", row) /\ "cont" \in Roles
  BY DEF IInv, ReqInv, StoreInv, Roles
<1>3. GoodRow(cont)
  BY <1>2, ZeroPinGood DEF Consumable, Addressed, GoodAt
<1>4. hit \in BOOLEAN /\ stale \in BOOLEAN
  BY <1>2 DEF Consumable, Addressed, GoodAt, GoodRow, Row, IInv, CountInv
<1>5. StoreInv'
  BY <1>1, <1>2, DeleteAt, PutGood DEF IInv
<1>6. contStale' \in BOOLEAN
  BY <1>1, <1>4 DEF IInv, CountInv
<1>. HIDE DEF q, cont, stale, hit
<1>7. GoodReq(n)
  BY <1>2, <1>3, <1>4, ConsumedGood, Zenon
<1>. HIDE DEF n
<1>8. ReqInv'
  BY <1>1, <1>7, BecomeGood DEF IInv
<1>. QED BY <1>1, <1>5, <1>6, <1>8 DEF IInv, BetaInv, CountInv, Bounds

\* A pin copied from a well formed row.
LEMMA PinOfGood ==
  ASSUME NEW row, GoodRow(row), NEW strategy \in Strategies
  PROVE  /\ GoodPin(PinOf(row, strategy))
         /\ ArmOf(PinOf(row, strategy)) = ArmOf(row)
  BY DEF GoodRow, Row, PinOf, GoodPin, Pin, CompanionsOf, ArmOf

\* grantPostCommandContinuation.
LEMMA GrantKeeps ==
  ASSUME IInv, NEW r \in Requests, grantPostCommandContinuation(r)
  PROVE  IInv'
<1>. DEFINE q == req[r]
<1>1. GoodReq(q) /\ GoodRow(q.pin) /\ q.strategy \in Strategies /\ q.stale \in BOOLEAN
  BY DEF IInv, ReqInv, GoodReq, ReqType
<1>2. ReqInv'
  BY IdleGood, BecomeGood DEF grantPostCommandContinuation, Done, IInv
<1>3. UNCHANGED <<beta, Bounds, redeemed>>
  BY DEF grantPostCommandContinuation
<1>4. CASE /\ Put("cont", UpsertSessionPin(store["cont"], PinOf(q.pin, q.strategy)))
           /\ contStale' = q.stale /\ granted' = granted + 1
  <2>1. "cont" \in Roles /\ "cont" # PinRole
    BY DEF Roles, PinRole
  <2>2. GoodAt("cont", UpsertSessionPin(store["cont"], PinOf(q.pin, q.strategy)))
    BY <1>1, <2>1, PinOfGood, UpsertAt DEF IInv
  <2>3. StoreInv'
    BY <1>4, <2>1, <2>2, PutGood DEF IInv
  <2>. QED BY <1>1, <1>2, <1>3, <1>4, <2>3 DEF IInv, BetaInv, CountInv, Bounds
<1>5. CASE UNCHANGED <<store, contStale, granted>>
  BY <1>2, <1>3, <1>5 DEF IInv, StoreInv, BetaInv, CountInv, Bounds
<1>. QED BY <1>4, <1>5 DEF grantPostCommandContinuation

-----------------------------------------------------------------------------
(* The decision of a turn.                                                  *)

\* The scorer and the sibling rescue pick real arms.
LEMMA EligibleReal ==
  ASSUME NEW q, NEW kept
  PROVE  EligibleArms(q, kept) \subseteq RealArm
  BY SessionConstants DEF EligibleArms, Arm, RealArm

\* refreshPin.
LEMMA RefreshKeeps ==
  ASSUME StoreInv, NEW q, GoodReq(q), NEW row, GoodRow(row), ArmOf(row) \in RealArm,
         refreshPin(q, row)
  PROVE  StoreInv'
<1>1. PinRole \in Roles /\ q.strategy \in Strategies
  BY GoodReqFields DEF Roles, PinRole
<1>2. GoodAt(PinRole, UpsertSessionPin(store[PinRole], PinOf(row, q.strategy)))
  BY <1>1, PinOfGood, UpsertAt
<1>. QED BY <1>1, <1>2, PutGood DEF refreshPin, UpsertPin

\* writeNewPin.
LEMMA NewPinKeeps ==
  ASSUME StoreInv, NEW q, GoodReq(q), NEW arm \in RealArm, NEW pair \in Arm,
         pair.model # NoModel => pair.model # arm.model,
         NEW reason \in Reasons, NEW group \in {NoModel, arm.model},
         writeNewPin(q, arm, pair, reason, group)
  PROVE  StoreInv'
<1>. DEFINE pin == [ model |-> arm.model, provider |-> arm.provider, pair |-> pair,
                     reason |-> reason, strategy |-> q.strategy, group |-> group,
                     live |-> TRUE ]
<1>1. PinRole \in Roles /\ q.strategy \in Strategies
  BY GoodReqFields DEF Roles, PinRole
<1>2. GoodPin(pin) /\ ArmOf(pin) \in RealArm
  BY <1>1 DEF GoodPin, Pin, CompanionsOf, ArmOf, RealArm
<1>3. Put(PinRole, UpsertSessionPin(store[PinRole], pin))
  BY Zenon DEF writeNewPin, UpsertPin
<1>. HIDE DEF pin
<1>. QED BY <1>1, <1>2, <1>3, UpsertAt, PutGood

\* The arm of a pin that survived the guards.
LEMMA UsableReal ==
  ASSUME NEW q, GoodReq(q), PinUsable(q)
  PROVE  GoodRow(q.pin) /\ ArmOf(q.pin) \in RealArm
  BY DEF GoodReq, PinUsable

\* NoArm is an arm without a model.
LEMMA NoArmTyped == NoArm \in Arm /\ NoArm.model = NoModel
  BY DEF NoArm, Arm

\* ServeContinuation.
LEMMA ServeContinuationKeeps ==
  ASSUME IInv, NEW r \in Requests, ServeContinuation(r)
  PROVE  IInv'
<1>. DEFINE q     == req[r]
            arm   == ArmOf(q.cont)
            hmm   == q.cont.reason = "hmm_policy"
            prior == PriorServed(q.cont, q.hist)
            ever  == EverSwitched(q.cont, q.hist)
            d     == Decided(q, arm, TRUE, hmm)
            n     == [d EXCEPT !.prior = prior, !.ever = ever]
<1>1. /\ ContinuationUsable(q) /\ refreshPin(q, q.cont) /\ Become(r, n)
      /\ redeemed' = redeemed + 1 /\ UNCHANGED <<beta, Bounds, contStale, granted>>
  BY Zenon DEF ServeContinuation
<1>2. GoodReq(q) /\ GoodRow(q.cont) /\ GoodRow(q.hist)
  BY DEF IInv, ReqInv, GoodReq
<1>3. arm \in RealArm
  BY <1>1, <1>2 DEF ContinuationUsable, ArmOf, RealArm
<1>4. StoreInv'
  BY <1>1, <1>2, <1>3, RefreshKeeps DEF IInv
<1>5. prior \in Models \cup {NoModel} /\ ever \in BOOLEAN /\ hmm \in BOOLEAN
  BY <1>2, EvidenceTyped
<1>. HIDE DEF q, arm, hmm, prior, ever
<1>6. GoodReq(d)
  BY <1>2, <1>3, <1>5, DecidedGood
<1>. HIDE DEF d
<1>7. GoodReq(n)
  BY <1>5, <1>6, AdjustedGood, Zenon
<1>. HIDE DEF n
<1>8. ReqInv'
  BY <1>1, <1>7, BecomeGood DEF IInv
<1>. QED BY <1>1, <1>4, <1>8 DEF IInv, BetaInv, CountInv, Bounds

\* ServePinned.
LEMMA ServePinnedKeeps ==
  ASSUME IInv, NEW r \in Requests, ServePinned(r)
  PROVE  IInv'
<1>. DEFINE q   == req[r]
            hmm == ServesHMM(q)
            anchor == q.pin.model
<1>1. /\ PinUsable(q) /\ refreshPin(q, q.pin) /\ UNCHANGED <<beta, Bounds, History>>
  BY Zenon DEF ServePinned
<1>2. PICK arm \in SwapArms(q) :
        Become(r, [ Decided(q, arm, TRUE, hmm) EXCEPT !.anchor = anchor ])
  BY Zenon DEF ServePinned
<1>3. GoodReq(q)
  BY DEF IInv, ReqInv
<1>4. GoodRow(q.pin) /\ ArmOf(q.pin) \in RealArm
  BY <1>1, <1>3, UsableReal
<1>5. StoreInv'
  BY <1>1, <1>3, <1>4, RefreshKeeps DEF IInv
<1>6. arm \in RealArm
  BY <1>2, <1>4 DEF SwapArms, RealArm, GoodRow, Row, Arm
<1>7. hmm \in BOOLEAN /\ anchor \in Models \cup {NoModel}
  BY <1>4 DEF ServesHMM, IsHMM, GoodRow, Row
<1>. DEFINE d == Decided(q, arm, TRUE, hmm)
            n == [d EXCEPT !.anchor = anchor]
<1>8. Become(r, n)
  BY <1>2
<1>. HIDE DEF q, hmm, anchor
<1>9. GoodReq(d)
  BY <1>3, <1>6, <1>7, DecidedGood
<1>. HIDE DEF d
<1>10. GoodReq(n)
  BY <1>7, <1>9, AdjustedGood, Zenon DEF PinRole
<1>. HIDE DEF n
<1>11. ReqInv'
  BY <1>8, <1>10, BecomeGood DEF IInv
<1>. QED BY <1>1, <1>5, <1>11 DEF IInv, BetaInv, CountInv, Bounds, History

\* RouteFresh.
LEMMA RouteFreshKeeps ==
  ASSUME IInv, NEW r \in Requests, RouteFresh(r)
  PROVE  IInv'
<1>. DEFINE q      == req[r]
            reason == IF IsHMM(q) THEN "hmm_policy" ELSE "routed"
            hmm    == IsHMM(q)
<1>1. UNCHANGED <<beta, Bounds, History>>
  BY DEF RouteFresh
<1>0. PICK kept \in {FALSE, PinUsable(q)} : \E arm \in EligibleArms(q, kept) :
        /\ \E pair \in {NoArm} \cup
                { a \in EligibleArms(q, kept) : a.model # arm.model /\ ~IsHMM(q) } :
              writeNewPin(q, arm, pair, reason, IF IsHMM(q) THEN arm.model ELSE NoModel)
        /\ Become(r, Decided(q, arm, FALSE, hmm))
  BY Zenon DEF RouteFresh
<1>2. PICK arm \in EligibleArms(q, kept) :
        /\ \E pair \in {NoArm} \cup
                { a \in EligibleArms(q, kept) : a.model # arm.model /\ ~IsHMM(q) } :
              writeNewPin(q, arm, pair, reason, IF IsHMM(q) THEN arm.model ELSE NoModel)
        /\ Become(r, Decided(q, arm, FALSE, hmm))
  BY <1>0
<1>3. PICK pair \in {NoArm} \cup
                { a \in EligibleArms(q, kept) : a.model # arm.model /\ ~IsHMM(q) } :
              writeNewPin(q, arm, pair, reason, IF IsHMM(q) THEN arm.model ELSE NoModel)
  BY <1>2
<1>4. GoodReq(q)
  BY DEF IInv, ReqInv
<1>5. arm \in RealArm
  BY <1>2, EligibleReal
<1>6. pair \in Arm /\ (pair.model # NoModel => pair.model # arm.model)
  BY <1>3, EligibleReal, NoArmTyped DEF Arm, RealArm
<1>7. reason \in Reasons /\ hmm \in BOOLEAN
      /\ (IF IsHMM(q) THEN arm.model ELSE NoModel) \in {NoModel, arm.model}
  BY DEF Reasons, IsHMM
<1>. HIDE DEF q, reason, hmm
<1>8. StoreInv'
  BY <1>3, <1>4, <1>5, <1>6, <1>7, NewPinKeeps DEF IInv
<1>9. GoodReq(Decided(q, arm, FALSE, hmm))
  BY <1>4, <1>5, <1>7, DecidedGood
<1>10. ReqInv'
  BY <1>2, <1>9, BecomeGood DEF IInv
<1>. QED BY <1>1, <1>8, <1>10 DEF IInv, BetaInv, CountInv, Bounds, History

\* Reanchor.
LEMMA ReanchorKeeps ==
  ASSUME IInv, NEW r \in Requests, Reanchor(r)
  PROVE  IInv'
<1>. DEFINE q   == req[r]
            arm == ArmOf(q.pin)
<1>1. /\ q.pin.model \in Models /\ q.pin.provider \in Providers
      /\ writeNewPin(q, arm, NoArm, q.pin.reason, NoModel)
      /\ Become(r, Decided(q, arm, TRUE, FALSE))
      /\ UNCHANGED <<beta, Bounds, History>>
  BY DEF Reanchor
<1>2. GoodReq(q) /\ q.pin.reason \in Reasons
  BY DEF IInv, ReqInv, GoodReq, GoodRow, Row
<1>3. arm \in RealArm
  BY <1>1 DEF ArmOf, RealArm
<1>4. StoreInv'
  BY <1>1, <1>2, <1>3, NoArmTyped, NewPinKeeps DEF IInv
<1>5. GoodReq(Decided(q, arm, TRUE, FALSE))
  BY <1>2, <1>3, DecidedGood
<1>6. ReqInv'
  BY <1>1, <1>5, BecomeGood DEF IInv
<1>. QED BY <1>1, <1>4, <1>6 DEF IInv, BetaInv, CountInv, Bounds, History

\* DeadlineFallback.
LEMMA DeadlineKeeps ==
  ASSUME IInv, NEW r \in Requests, DeadlineFallback(r)
  PROVE  IInv'
<1>. DEFINE q == req[r]
<1>1. UNCHANGED <<beta, Bounds, History>>
  BY DEF DeadlineFallback
<1>2. GoodReq(q)
  BY DEF IInv, ReqInv
<1>3. StoreInv' /\ ReqInv'
  <2>1. CASE /\ PinUsable(q) /\ refreshPin(q, q.pin)
             /\ Become(r, Decided(q, ArmOf(q.pin), TRUE, FALSE))
    <3>1. GoodRow(q.pin) /\ ArmOf(q.pin) \in RealArm
      BY <1>2, <2>1, UsableReal
    <3>2. GoodReq(Decided(q, ArmOf(q.pin), TRUE, FALSE))
      BY <1>2, <3>1, DecidedGood
    <3>. QED BY <1>2, <2>1, <3>1, <3>2, RefreshKeeps, BecomeGood DEF IInv
  <2>2. CASE \E arm \in EligibleArms(q, FALSE) :
               /\ writeNewPin(q, arm, NoArm, "deadline_default", NoModel)
               /\ Become(r, Decided(q, arm, FALSE, FALSE))
    <3>1. PICK arm \in EligibleArms(q, FALSE) :
               /\ writeNewPin(q, arm, NoArm, "deadline_default", NoModel)
               /\ Become(r, Decided(q, arm, FALSE, FALSE))
      BY <2>2
    <3>2. arm \in RealArm /\ "deadline_default" \in Reasons
      BY <3>1, EligibleReal DEF Reasons
    <3>3. GoodReq(Decided(q, arm, FALSE, FALSE))
      BY <1>2, <3>2, DecidedGood
    <3>4. StoreInv'
      BY <1>2, <3>1, <3>2, NoArmTyped, NewPinKeeps DEF IInv
    <3>. QED BY <3>1, <3>3, <3>4, BecomeGood DEF IInv
  <2>. QED BY <2>1, <2>2 DEF DeadlineFallback
<1>. QED BY <1>1, <1>3 DEF IInv, BetaInv, CountInv, Bounds, History

\* The arms normalizeHMMStayPin offers are real.
LEMMA StayReal ==
  ASSUME NEW q, NEW kept
  PROVE  HMMStayArms(q, kept) \subseteq RealArm
<1>1. ASSUME NEW row PROVE StayArms(q, row, kept) \subseteq RealArm
  BY SessionConstants DEF StayArms, RealArm
<1>. QED BY <1>1 DEF HMMStayArms

\* ServeHMM.
LEMMA ServeHMMKeeps ==
  ASSUME IInv, NEW r \in Requests, ServeHMM(r)
  PROVE  IInv'
<1>. DEFINE q == req[r]
<1>1. UNCHANGED <<store, beta, Bounds, History>>
  BY DEF ServeHMM
<1>2. GoodReq(q)
  BY DEF IInv, ReqInv
<1>0. PICK kept \in {FALSE, PinUsable(q)} : \E fresh \in EligibleArms(q, kept) :
         \/ Become(r, [Decided(q, fresh, FALSE, TRUE) EXCEPT !.anchor = NoModel])
         \/ \E arm \in HMMStayArms(q, kept) :
              /\ arm.model # fresh.model
              /\ Become(r, [ Decided(q, arm, TRUE, TRUE) EXCEPT
                              !.anchor = NoModel, !.stickyRole = HistRole ])
  BY Zenon DEF ServeHMM
<1>3. PICK fresh \in EligibleArms(q, kept) :
         \/ Become(r, [Decided(q, fresh, FALSE, TRUE) EXCEPT !.anchor = NoModel])
         \/ \E arm \in HMMStayArms(q, kept) :
              /\ arm.model # fresh.model
              /\ Become(r, [ Decided(q, arm, TRUE, TRUE) EXCEPT
                              !.anchor = NoModel, !.stickyRole = HistRole ])
  BY <1>0, Zenon
<1>4. ReqInv'
  <2>1. CASE Become(r, [Decided(q, fresh, FALSE, TRUE) EXCEPT !.anchor = NoModel])
    <3>. DEFINE d == Decided(q, fresh, FALSE, TRUE)
                n == [d EXCEPT !.anchor = NoModel]
    <3>1. fresh \in RealArm
      BY <1>3, EligibleReal
    <3>2. GoodReq(d)
      BY <1>2, <3>1, DecidedGood
    <3>3. Become(r, n)
      BY <2>1
    <3>. HIDE DEF d
    <3>4. GoodReq(n)
      BY <3>2, AdjustedGood, Zenon
    <3>. HIDE DEF n
    <3>. QED BY <3>3, <3>4, BecomeGood DEF IInv
  <2>2. CASE \E arm \in HMMStayArms(q, kept) :
               /\ arm.model # fresh.model
               /\ Become(r, [ Decided(q, arm, TRUE, TRUE) EXCEPT
                               !.anchor = NoModel, !.stickyRole = HistRole ])
    <3>1. PICK arm \in HMMStayArms(q, kept) :
               Become(r, [ Decided(q, arm, TRUE, TRUE) EXCEPT
                               !.anchor = NoModel, !.stickyRole = HistRole ])
      BY <2>2, Zenon
    <3>. DEFINE d == Decided(q, arm, TRUE, TRUE)
                n == [d EXCEPT !.anchor = NoModel, !.stickyRole = HistRole]
    <3>2. arm \in RealArm
      BY <3>1, StayReal
    <3>3. GoodReq(d)
      BY <1>2, <3>2, DecidedGood
    <3>4. Become(r, n)
      BY <3>1
    <3>. HIDE DEF d
    <3>5. GoodReq(n)
      BY <3>3, AdjustedGood, Zenon
    <3>. HIDE DEF n
    <3>. QED BY <3>4, <3>5, BecomeGood DEF IInv
  <2>. QED BY <1>3, <2>1, <2>2, Zenon
<1>. QED BY <1>1, <1>4 DEF IInv, StoreInv, BetaInv, CountInv, Bounds, History

\* RouteFailed.
LEMMA RouteFailedKeeps ==
  ASSUME IInv, NEW r \in Requests, RouteFailed(r)
  PROVE  IInv'
<1>1. ReqInv'
  BY IdleGood, BecomeGood DEF RouteFailed, Done, IInv
<1>. QED BY <1>1 DEF RouteFailed, IInv, StoreInv, BetaInv, CountInv, Bounds, History

-----------------------------------------------------------------------------
(* Dispatch and the post-turn writes.                                       *)

\* The walk of a real decision reaches real providers.
LEMMA ReachReal ==
  ASSUME NEW q, NEW arm \in RealArm
  PROVE  resolveBindingsForDispatch(q, arm) \subseteq Providers
  BY SessionConstants DEF resolveBindingsForDispatch, RealArm

\* DispatchTurn.
LEMMA DispatchKeeps ==
  ASSUME IInv, NEW r \in Requests, DispatchTurn(r)
  PROVE  IInv'
<1>. DEFINE q == req[r]
<1>1. q.pc = "dispatch" /\ UNCHANGED <<store, beta, Bounds, History>>
  BY DEF DispatchTurn
<1>2. PICK arm \in Ends(q), outcome \in Outcomes \cup {"transient"}, dead \in BOOLEAN :
        /\ CanEnd(q, arm, outcome, dead)
        /\ Continue(r, Result(q, arm, outcome, dead),
                    AfterDispatch(Result(q, arm, outcome, dead)))
  BY Zenon DEF DispatchTurn
<1>3. GoodReq(q) /\ q.decision \in RealArm
  BY <1>1 DEF IInv, ReqInv, GoodReq
<1>4. resolveBindingsForDispatch(q, q.decision) \subseteq Providers
  BY <1>3, ReachReal
<1>5. Reached(q) \subseteq RealArm
  BY <1>3, <1>4 DEF RealArm, Reached
<1>6. SiblingArms(q) \subseteq RealArm
  BY EligibleReal DEF SiblingArms
<1>7. arm \in RealArm /\ outcome \in OutcomeKinds
  BY <1>2, <1>3, <1>5, <1>6, SessionConstants DEF Ends, OutcomeKinds
<1>. HIDE DEF q
<1>8. GoodReq(Result(q, arm, outcome, dead)) /\ Result(q, arm, outcome, dead).served = arm
  BY <1>3, <1>7, ResultGood
<1>9. ReqInv'
  BY <1>2, <1>7, <1>8, AfterLater, ContinueGood DEF IInv
<1>. QED BY <1>1, <1>9 DEF IInv, StoreInv, BetaInv, CountInv, Bounds, History

\* A request in its post-turn steps, and the rows these steps address.
LEMMA PostFacts ==
  ASSUME IInv, NEW r \in Requests, req[r].pc \in PostPCs
  PROVE  /\ GoodReq(req[r]) /\ req[r].served \in RealArm
         /\ req[r].strategy \in Strategies /\ req[r].anchor \in Models \cup {NoModel}
         /\ req[r].served.provider \in Providers
         /\ stickyStateRole(req[r]) \in {PinRole, HistRole}
         /\ {PinRole, HistRole} \subseteq Roles
         /\ req[r].return \in Later
         /\ req[r].expire.role \in {PinRole, HistRole}
         /\ UsageOf(req[r]) \in Usage
<1>1. GoodReq(req[r])
  BY DEF IInv, ReqInv
<1>2. req[r].served \in RealArm
  BY <1>1 DEF GoodReq
<1>3. UsageOf(req[r]) \in Usage
  BY <1>1, <1>2, GoodReqFields DEF UsageOf, Usage, RealArm
<1>4. req[r].return \in Later
  BY <1>1, GoodReqFields DEF GoodReq, Later
<1>. QED BY <1>1, <1>2, <1>3, <1>4, GoodReqFields DEF RealArm, Roles, PinRole, HistRole

\* recordTurnUsage.
LEMMA UsageKeeps ==
  ASSUME IInv, NEW r \in Requests, recordTurnUsage(r)
  PROVE  IInv'
<1>1. req[r].pc \in PostPCs
  BY DEF recordTurnUsage, PostPCs
<1>2. StoreInv'
  BY <1>1, PostFacts, UsageAt, PutGood DEF recordTurnUsage, IInv
<1>3. ReqInv'
  BY <1>1, PostFacts, AfterLater, ContinueGood DEF recordTurnUsage, IInv
<1>. QED BY <1>2, <1>3 DEF recordTurnUsage, IInv, BetaInv, CountInv, Bounds, History

\* updateHistoryUsage.
LEMMA HistoryUsageKeeps ==
  ASSUME IInv, NEW r \in Requests, updateHistoryUsage(r)
  PROVE  IInv'
<1>1. req[r].pc \in PostPCs
  BY DEF updateHistoryUsage, PostPCs
<1>2. StoreInv'
  BY <1>1, PostFacts, UsageAt, PutGood DEF updateHistoryUsage, IInv
<1>3. ReqInv'
  BY <1>1, PostFacts, AfterLater, ContinueGood DEF updateHistoryUsage, IInv
<1>. QED BY <1>2, <1>3 DEF updateHistoryUsage, IInv, BetaInv, CountInv, Bounds, History

\* readPriorHistory.
LEMMA PriorHistoryKeeps ==
  ASSUME IInv, NEW r \in Requests, readPriorHistory(r)
  PROVE  IInv'
<1>. DEFINE q    == req[r]
            hist == IF Addressed(store[HistRole], q.strategy) THEN store[HistRole] ELSE ZeroPin
            n    == [q EXCEPT !.pc = "upsertHistory", !.hist = hist]
<1>1. q.pc \in PostPCs /\ UNCHANGED <<store, beta, Bounds, History>>
  BY DEF readPriorHistory, PostPCs
<1>2. Become(r, n)
  BY Zenon DEF readPriorHistory
<1>3. GoodReq(q) /\ q.served \in RealArm /\ HistRole \in Roles
  BY <1>1, PostFacts
<1>4. GoodRow(hist)
  BY <1>3, ZeroPinGood DEF Addressed, IInv, StoreInv, GoodAt
<1>. HIDE DEF q, hist
<1>5. GoodReq(n)
  BY <1>3, <1>4, PriorReadGood, Zenon
<1>. HIDE DEF n
<1>6. ReqInv'
  BY <1>2, <1>5, BecomeGood DEF IInv
<1>. QED BY <1>1, <1>6 DEF IInv, StoreInv, BetaInv, CountInv, Bounds, History

\* upsertHMMHistory.
LEMMA UpsertHistoryKeeps ==
  ASSUME IInv, NEW r \in Requests, upsertHMMHistory(r)
  PROVE  IInv'
<1>. DEFINE q        == req[r]
            provider == IF q.hist.provider # NoProvider THEN q.hist.provider
                        ELSE q.served.provider
            pin      == [ model |-> NoModel, provider |-> provider, pair |-> NoArm,
                          reason |-> "hmm_policy", strategy |-> q.strategy,
                          group |-> NoModel, live |-> TRUE ]
            n        == [q EXCEPT !.hist = ZeroPin]
            pc       == IF Metered(q.outcome) THEN "historyUsage" ELSE AfterUsage(q)
<1>1. /\ q.pc \in PostPCs /\ UNCHANGED <<beta, Bounds, History>>
      /\ Put(HistRole, UpsertSessionPin(store[HistRole], pin))
  BY DEF upsertHMMHistory, PostPCs
<1>2. Continue(r, n, pc)
  BY Zenon DEF upsertHMMHistory
<1>3. /\ GoodReq(q) /\ q.served \in RealArm /\ q.served.provider \in Providers
      /\ q.strategy \in Strategies /\ HistRole \in Roles /\ HistRole # PinRole
  BY <1>1, PostFacts DEF HistRole, PinRole
<1>4. q.hist.provider \in Providers \cup {NoProvider}
  BY <1>3 DEF GoodReq, GoodRow, Row
<1>5. pc \in Later
  BY AfterLater DEF Later, PostPCs
<1>6. GoodPin(pin)
  BY <1>3, <1>4, NoArmTyped DEF GoodPin, Pin, Reasons, CompanionsOf
<1>. HIDE DEF q, pin, pc
<1>7. StoreInv'
  BY <1>1, <1>3, <1>6, UpsertAt, PutGood DEF IInv
<1>8. GoodReq(n) /\ n.served = q.served
  BY <1>3, ZeroPinGood, HistSetGood, Zenon
<1>. HIDE DEF n
<1>9. ReqInv'
  BY <1>2, <1>3, <1>5, <1>8, ContinueGood DEF IInv
<1>. QED BY <1>1, <1>7, <1>9 DEF IInv, BetaInv, CountInv, Bounds, History

-----------------------------------------------------------------------------
(* Evictions, strikes and re-pins.                                          *)

\* The blank, expired marker is a pin no live row can come from.
LEMMA MarkerGood ==
  ASSUME NEW strategy \in Strategies
  PROVE  GoodPin(Marker(strategy)) /\ ~Marker(strategy).live
  BY NoArmTyped DEF Marker, GoodPin, Pin, Reasons, CompanionsOf

\* markExpired.
LEMMA MarkKeeps ==
  ASSUME IInv, NEW r \in Requests, markExpired(r)
  PROVE  IInv'
<1>. DEFINE q == req[r]
            n == [q EXCEPT !.pc = "invalidate"]
<1>1. /\ q.pc = "mark" /\ q.pc \in PostPCs
      /\ Put(q.expire.role, UpsertSessionPin(store[q.expire.role], Marker(q.strategy)))
      /\ contStale' = (contStale \/ (q.expire.role = PinRole /\ store["cont"] # NoRow))
      /\ UNCHANGED <<beta, Bounds, granted, redeemed>>
  BY DEF markExpired, PostPCs
<1>2. req' = [s \in Requests |->
                IF s = r THEN n
                ELSE IF q.expire.role = PinRole THEN Outdated(req[s]) ELSE req[s]]
  BY Zenon DEF markExpired
<1>3. /\ GoodReq(q) /\ q.served \in RealArm /\ q.strategy \in Strategies
      /\ q.expire.role \in Roles
  BY <1>1, PostFacts
<1>4. StoreInv'
  BY <1>1, <1>3, MarkerGood, UpsertAt, PutGood DEF IInv
<1>5. "invalidate" \in PCs /\ "invalidate" \notin {"dispatch", "refusalWrite"}
  BY DEF PCs, PostPCs
<1>6. GoodReq(n)
  BY <1>3, <1>5, MovedGood, Zenon
<1>. HIDE DEF n
<1>7. \A s \in Requests : GoodReq(Outdated(req[s])) /\ GoodReq(req[s])
  BY OutdatedGood DEF IInv, ReqInv
<1>8. \A s \in Requests : GoodReq(req'[s])
  BY <1>2, <1>6, <1>7
<1>9. req' \in [Requests -> ReqType]
  BY <1>2, <1>6, <1>7 DEF GoodReq
<1>10. ReqInv'
  BY <1>8, <1>9 DEF ReqInv
<1>. QED BY <1>1, <1>4, <1>10 DEF IInv, BetaInv, CountInv, Bounds

\* invalidatePostCommandContinuation.
LEMMA InvalidateKeeps ==
  ASSUME IInv, NEW r \in Requests, invalidatePostCommandContinuation(r)
  PROVE  IInv'
<1>. DEFINE q    == req[r]
            role == commandContinuationRole(q.expire.role)
            pc   == IF q.expire.history THEN "markHistory" ELSE q.return
<1>1. /\ q.pc \in PostPCs
      /\ Put(role, DeleteSessionPin(store[role], q.strategy))
      /\ contStale' = (contStale /\ (role = "cont" => ~Consumable(store[role], q.strategy)))
      /\ Continue(r, q, pc)
      /\ UNCHANGED <<beta, Bounds, granted, redeemed>>
  BY DEF invalidatePostCommandContinuation, PostPCs
<1>2. role \in Roles
  BY DEF commandContinuationRole, Roles
<1>3. GoodReq(q) /\ q.served \in RealArm /\ q.return \in Later
  BY <1>1, PostFacts
<1>4. pc \in Later
  BY <1>3 DEF Later, PostPCs
<1>5. StoreInv'
  BY <1>1, <1>2, DeleteAt, PutGood DEF IInv
<1>6. ReqInv'
  BY <1>1, <1>3, <1>4, ContinueGood DEF IInv
<1>7. contStale' \in BOOLEAN
  BY <1>1 DEF IInv, CountInv
<1>. QED BY <1>1, <1>5, <1>6, <1>7 DEF IInv, BetaInv, CountInv, Bounds

\* markHistoryExpired.
LEMMA MarkHistoryKeeps ==
  ASSUME IInv, NEW r \in Requests, markHistoryExpired(r)
  PROVE  IInv'
<1>1. req[r].pc \in PostPCs
  BY DEF markHistoryExpired, PostPCs
<1>2. StoreInv'
  BY <1>1, PostFacts, MarkerGood, UpsertAt, PutGood DEF markHistoryExpired, IInv
<1>3. ReqInv'
  BY <1>1, PostFacts, ContinueGood DEF markHistoryExpired, IInv
<1>. QED BY <1>2, <1>3 DEF markHistoryExpired, IInv, BetaInv, CountInv, Bounds, History

\* evictPinAfterDegenerateResponse and maybeExpireDeadArmPin.
LEMMA EvictKeeps ==
  ASSUME IInv, NEW r \in Requests,
         evictPinAfterDegenerateResponse(r) \/ maybeExpireDeadArmPin(r)
  PROVE  IInv'
<1>1. req[r].pc \in PostPCs /\ UNCHANGED <<store, beta, Bounds, History>>
  BY DEF evictPinAfterDegenerateResponse, maybeExpireDeadArmPin, PostPCs
<1>2. ReqInv'
  BY <1>1, PostFacts, AfterLater, StartExpireGood
     DEF evictPinAfterDegenerateResponse, maybeExpireDeadArmPin, IInv
<1>. QED BY <1>1, <1>2 DEF IInv, StoreInv, BetaInv, CountInv, Bounds, History

\* maybeEvictPinAfterUpstreamErr.
LEMMA StrikeKeeps ==
  ASSUME IInv, NEW r \in Requests, maybeEvictPinAfterUpstreamErr(r)
  PROVE  IInv'
<1>1. req[r].pc \in PostPCs /\ UNCHANGED <<beta, Bounds, History>>
  BY DEF maybeEvictPinAfterUpstreamErr, PostPCs
<1>2. StoreInv'
  BY <1>1, PostFacts, StrikesAt, PutGood DEF maybeEvictPinAfterUpstreamErr, IInv
<1>3. ReqInv'
  BY <1>1, PostFacts, AfterLater, ContinueGood, StartExpireGood
     DEF maybeEvictPinAfterUpstreamErr, IInv
<1>. QED BY <1>1, <1>2, <1>3 DEF IInv, BetaInv, CountInv, Bounds, History

\* maybeDisableProviderAfterOverload.
LEMMA OverloadKeeps ==
  ASSUME IInv, NEW r \in Requests, maybeDisableProviderAfterOverload(r)
  PROVE  IInv'
<1>1. req[r].pc \in PostPCs /\ UNCHANGED <<beta, Bounds, History>>
  BY DEF maybeDisableProviderAfterOverload, PostPCs
<1>2. StoreInv'
  BY <1>1, PostFacts, StrikesAt, PutGood DEF maybeDisableProviderAfterOverload, IInv
<1>3. PICK pc \in Later : Continue(r, req[r], pc)
  BY AfterLater DEF maybeDisableProviderAfterOverload, Later, PostPCs
<1>4. ReqInv'
  BY <1>1, <1>3, PostFacts, ContinueGood DEF IInv
<1>. QED BY <1>1, <1>2, <1>4 DEF IInv, BetaInv, CountInv, Bounds, History

\* disableProvider.
LEMMA DisableKeeps ==
  ASSUME IInv, NEW r \in Requests, disableProvider(r)
  PROVE  IInv'
<1>1. req[r].pc \in PostPCs /\ UNCHANGED <<beta, Bounds, History>>
  BY DEF disableProvider, PostPCs
<1>2. StoreInv'
  BY <1>1, PostFacts, StrikesAt, PutGood DEF disableProvider, IInv
<1>3. ReqInv'
  BY <1>1, PostFacts, AfterLater, StartExpireGood DEF disableProvider, IInv
<1>. QED BY <1>1, <1>2, <1>3 DEF IInv, BetaInv, CountInv, Bounds, History

\* readRefusalFallback.
LEMMA RefusalReadKeeps ==
  ASSUME IInv, NEW r \in Requests, readRefusalFallback(r)
  PROVE  IInv'
<1>. DEFINE q  == req[r]
            fb == RefusalFallback(q)
            n  == [q EXCEPT !.decision = fb]
            pc == IF fb.model \in {NoModel, q.served.model} \/ fb.provider = NoProvider
                  THEN "idle" ELSE "refusalWrite"
<1>1. q.pc = "refusalRead" /\ q.pc \in PostPCs /\ UNCHANGED <<store, beta, Bounds, History>>
  BY DEF readRefusalFallback, PostPCs
<1>2. Continue(r, n, pc)
  BY Zenon DEF readRefusalFallback
<1>3. GoodReq(q) /\ q.served \in RealArm /\ stickyStateRole(q) \in Roles
  BY <1>1, PostFacts
<1>4. fb \in Arm
  <2>1. \A role \in Roles : store[role] # NoRow => store[role].pair \in Arm
    BY DEF IInv, StoreInv, GoodAt, GoodRow, Row
  <2>2. ASSUME NEW m \in Models, Bindings[m] # {}
        PROVE  [model |-> m, provider |-> CHOOSE p \in Bindings[m] : TRUE] \in Arm
    <3>1. (CHOOSE p \in Bindings[m] : TRUE) \in Bindings[m]
      BY <2>2
    <3>. QED BY <3>1, SessionConstants DEF Arm
  <2>. QED BY <1>3, <2>1, <2>2, NoArmTyped DEF RefusalFallback, Addressed
<1>. HIDE DEF q, fb
<1>5. GoodReq(n) /\ n.decision = fb /\ n.served = q.served
  BY <1>1, <1>3, <1>4, FallbackGood, Zenon
<1>. HIDE DEF n
<1>6. ReqInv'
  <2>1. CASE pc = "idle"
    BY <1>2, <1>3, <1>5, <2>1, ContinueGood DEF IInv, Later
  <2>2. CASE pc = "refusalWrite"
    <3>1. fb \in RealArm
      BY <1>4, <2>2 DEF Arm, RealArm
    <3>. DEFINE m == [n EXCEPT !.pc = "refusalWrite"]
    <3>2. "refusalWrite" \in PCs
      BY DEF PCs, PostPCs
    <3>3. GoodReq(m)
      BY <1>3, <1>5, <3>1, <3>2, MovedGood, Zenon
    <3>4. Become(r, m)
      BY <1>2, <2>2, Zenon DEF Continue
    <3>. HIDE DEF m
    <3>. QED BY <3>3, <3>4, BecomeGood DEF IInv
  <2>. QED BY <2>1, <2>2
<1>. QED BY <1>1, <1>6 DEF IInv, StoreInv, BetaInv, CountInv, Bounds, History

\* repinOnRefusal.
LEMMA RepinKeeps ==
  ASSUME IInv, NEW r \in Requests, repinOnRefusal(r)
  PROVE  IInv'
<1>. DEFINE q    == req[r]
            role == stickyStateRole(q)
            pin  == [ model |-> q.decision.model, provider |-> q.decision.provider,
                      pair |-> NoArm, reason |-> "repin", strategy |-> q.strategy,
                      group |-> NoModel, live |-> TRUE ]
<1>1. /\ q.pc = "refusalWrite" /\ q.pc \in PostPCs /\ Done(r)
      /\ UNCHANGED <<beta, Bounds, History>>
      /\ Put(role, UpsertSessionPin(store[role], pin))
  BY DEF repinOnRefusal, PostPCs
<1>2. GoodReq(q) /\ q.strategy \in Strategies /\ role \in Roles
  BY <1>1, PostFacts
<1>3. q.decision \in RealArm
  BY <1>1, <1>2 DEF GoodReq
<1>4. GoodPin(pin) /\ ArmOf(pin) \in RealArm
  BY <1>2, <1>3, NoArmTyped DEF GoodPin, Pin, Reasons, CompanionsOf, ArmOf, RealArm
<1>. HIDE DEF pin, role
<1>5. StoreInv'
  BY <1>1, <1>2, <1>4, UpsertAt, PutGood DEF IInv
<1>6. ReqInv'
  BY <1>1, IdleGood, BecomeGood DEF Done, IInv
<1>. QED BY <1>1, <1>5, <1>6 DEF IInv, BetaInv, CountInv, Bounds, History

-----------------------------------------------------------------------------
(* Time.                                                                    *)

\* A row that outlives its TTL is as well formed as before.
LEMMA LapsedGood ==
  ASSUME NEW row, GoodRow(row)
  PROVE  LET n == [row EXCEPT !.live = FALSE] IN
         GoodRow(n) /\ n.live = FALSE /\ n.strategy = row.strategy /\ n.disabled = row.disabled
<1>. DEFINE n == [row EXCEPT !.live = FALSE]
<1>1. row \in Row
  BY GoodRowFields
<1>2. n \in Row
  BY <1>1, Zenon DEF Row
<1>3. /\ n.model = row.model /\ n.pair = row.pair /\ n.group = row.group
      /\ n.strategy = row.strategy /\ n.lastServed = row.lastServed /\ n.ever = row.ever
      /\ n.audit = row.audit /\ n.live = FALSE /\ n.disabled = row.disabled
  BY <1>1, Zenon DEF Row
<1>. HIDE DEF n
<1>4. GoodRow(n)
  BY <1>2, <1>3 DEF GoodRow, EvidenceIsolated, CompanionsOf, LatchOf
<1>. QED BY <1>3, <1>4 DEF n

\* LapseRow and SweepExpiredSessionPins.
LEMMA TimeKeeps ==
  ASSUME IInv, NEW role \in Roles, LapseRow(role) \/ SweepExpiredSessionPins(role)
  PROVE  IInv'
<1>1. CASE LapseRow(role)
  <2>. DEFINE n == [store[role] EXCEPT !.live = FALSE]
  <2>1. Put(role, n) /\ store[role] # NoRow
    BY <1>1, Zenon DEF LapseRow
  <2>2. GoodRow(store[role])
    BY <2>1 DEF IInv, StoreInv, GoodAt
  <2>3. GoodRow(n) /\ n.live = FALSE
    BY <2>2, LapsedGood, Zenon
  <2>. HIDE DEF n
  <2>4. StoreInv'
    BY <2>1, <2>3, PutGood DEF GoodAt, IInv
  <2>. QED BY <1>1, <2>4 DEF LapseRow, IInv, ReqInv, BetaInv, CountInv, History
<1>2. CASE SweepExpiredSessionPins(role)
  <2>1. StoreInv'
    BY <1>2, PutGood DEF SweepExpiredSessionPins, GoodAt, IInv
  <2>. QED BY <1>2, <2>1 DEF SweepExpiredSessionPins, IInv, ReqInv, BetaInv, CountInv
<1>. QED BY <1>1, <1>2

-----------------------------------------------------------------------------
(* The inductive invariant.                                                 *)

\* A fresh deployment, with or without a row from before the rollout.
LEMMA InitGood == Init => IInv
<1>. SUFFICES ASSUME Init PROVE IInv
  OBVIOUS
<1>1. \A row \in LegacyRows : GoodRow(row) /\ ArmOf(row) \in RealArm
  <2>1. SUFFICES ASSUME NEW a \in Arm, a.model \in Models, a.provider \in Bindings[a.model]
                 PROVE  LET row == [ ZeroPin EXCEPT !.model = a.model, !.provider = a.provider,
                                                    !.reason = "routed", !.live = TRUE ] IN
                        GoodRow(row) /\ ArmOf(row) \in RealArm
    BY Zenon DEF LegacyRows
  <2>. DEFINE row == [ ZeroPin EXCEPT !.model = a.model, !.provider = a.provider,
                                      !.reason = "routed", !.live = TRUE ]
  <2>2. ZeroPin \in Row /\ GoodRow(ZeroPin)
    BY ZeroPinGood, GoodRowFields
  <2>3. a.provider \in Providers /\ "routed" \in Reasons
    BY <2>1, SessionConstants DEF Reasons
  <2>4. row \in Row
    BY <2>1, <2>2, <2>3, Zenon DEF Row
  <2>5. /\ row.model = a.model /\ row.provider = a.provider /\ row.pair = ZeroPin.pair
        /\ row.group = ZeroPin.group /\ row.strategy = ZeroPin.strategy
        /\ row.lastServed = ZeroPin.lastServed /\ row.ever = ZeroPin.ever
        /\ row.audit = ZeroPin.audit
    BY <2>2, Zenon DEF Row
  <2>. HIDE DEF row
  <2>6. row.pair.model = NoModel /\ row.group = NoModel
    BY <2>5 DEF ZeroPin, NoArm
  <2>7. GoodRow(row) /\ ArmOf(row) \in RealArm
    BY <2>1, <2>2, <2>3, <2>4, <2>5, <2>6
       DEF GoodRow, EvidenceIsolated, CompanionsOf, LatchOf, ArmOf, RealArm
  <2>. QED BY <2>7, Zenon DEF row
<1>2. StoreInv
  BY <1>1 DEF Init, StoreInv, GoodAt, GoodRow
<1>3. ReqInv
  <2>1. Idle \in ReqType
    BY IdleGood, GoodReqFields
  <2>. QED BY <2>1, IdleGood DEF Init, ReqInv
<1>4. BetaInv /\ CountInv
  BY DEF Init, BetaInv, CountInv
<1>. QED BY <1>2, <1>3, <1>4 DEF IInv

\* Every step of every request, and of time, keeps the invariant.
LEMMA NextGood == IInv /\ [Next]_vars => IInv'
<1>. SUFFICES ASSUME IInv, [Next]_vars PROVE IInv'
  OBVIOUS
<1>1. ASSUME NEW r \in Requests, Arrive(r) PROVE IInv'
  BY <1>1, ArriveGood
<1>2. ASSUME NEW r \in Requests, Step(r) PROVE IInv'
  <2>1. CASE InvalidateRoutingState(r)
    BY <2>1, CleanGood
  <2>2. CASE \/ loadPin(r) \/ loadHMMHistory(r) \/ consumePostCommandContinuation(r)
             \/ grantPostCommandContinuation(r)
    BY <2>2, LoadPinKeeps, LoadHistoryKeeps, ConsumeKeeps, GrantKeeps
  <2>3. CASE \/ ServeContinuation(r) \/ ServePinned(r) \/ RouteFresh(r) \/ Reanchor(r)
             \/ DeadlineFallback(r) \/ ServeHMM(r) \/ RouteFailed(r)
    BY <2>3, ServeContinuationKeeps, ServePinnedKeeps, RouteFreshKeeps, ReanchorKeeps,
       DeadlineKeeps, ServeHMMKeeps, RouteFailedKeeps
  <2>4. CASE \/ DispatchTurn(r) \/ recordTurnUsage(r) \/ readPriorHistory(r)
             \/ upsertHMMHistory(r) \/ updateHistoryUsage(r)
    BY <2>4, DispatchKeeps, UsageKeeps, PriorHistoryKeeps, UpsertHistoryKeeps,
       HistoryUsageKeeps
  <2>5. CASE \/ markExpired(r) \/ invalidatePostCommandContinuation(r)
             \/ markHistoryExpired(r) \/ evictPinAfterDegenerateResponse(r)
             \/ maybeExpireDeadArmPin(r)
    BY <2>5, MarkKeeps, InvalidateKeeps, MarkHistoryKeeps, EvictKeeps
  <2>6. CASE \/ maybeEvictPinAfterUpstreamErr(r) \/ maybeDisableProviderAfterOverload(r)
             \/ disableProvider(r) \/ readRefusalFallback(r) \/ repinOnRefusal(r)
    BY <2>6, StrikeKeeps, OverloadKeeps, DisableKeeps, RefusalReadKeeps, RepinKeeps
  <2>. QED BY <1>2, <2>1, <2>2, <2>3, <2>4, <2>5, <2>6, Zenon DEF Step
<1>3. ASSUME NEW role \in Roles, LapseRow(role) \/ SweepExpiredSessionPins(role) PROVE IInv'
  BY <1>3, TimeKeeps
<1>4. CASE UNCHANGED vars
  BY <1>4 DEF vars, IInv, StoreInv, ReqInv, BetaInv, CountInv
<1>. QED BY <1>1, <1>2, <1>3, <1>4 DEF Next

\* The invariant holds in every reachable state.
THEOREM Invariance == Spec => []IInv
  BY InitGood, NextGood, PTL DEF Spec

\* Type correctness: no interleaving hands a missing row, an unknown arm or an
\* unknown strategy to a statement.
THEOREM TypeCorrect == Spec => []TypeOK
<1>1. IInv => TypeOK
  BY DEF IInv, StoreInv, ReqInv, BetaInv, CountInv, TypeOK
<1>. QED BY <1>1, Invariance, PTL

\* Rows of different strategies never mix their evidence: the reset rules of
\* UpsertSessionPin and the strategy guard of every in-place statement suffice
\* for every set of requests and every interleaving.
THEOREM StrategiesIsolated == Spec => []StrategyIsolation
<1>1. IInv => StrategyIsolation
  BY DEF IInv, StoreInv, GoodAt, GoodRow, StrategyIsolation
<1>. QED BY <1>1, Invariance, PTL

\* A runner-up or a policy group never outlives the model it was chosen for.
THEOREM CompanionsMatch == Spec => []CompanionsMatchPin
<1>1. IInv => CompanionsMatchPin
  BY DEF IInv, StoreInv, GoodAt, GoodRow, CompanionsMatchPin
<1>. QED BY <1>1, Invariance, PTL

\* The has_ever_switched latch is never behind the usage recorded on its row.
THEOREM SwitchesLatched == Spec => []SwitchLatched
<1>1. IInv => SwitchLatched
  BY LatchedRow DEF IInv, StoreInv, GoodAt, SwitchLatched
<1>. QED BY <1>1, Invariance, PTL

-----------------------------------------------------------------------------
(* Strike-outs survive.                                                     *)

\* The step of DisabledKept.
Kept == \A role \in Roles : KeepsDisabled(store'[role], store[role])

\* A step that leaves the table alone.
LEMMA IdleKept ==
  ASSUME UNCHANGED store
  PROVE  Kept
  BY DEF Kept, KeepsDisabled

\* A statement that keeps the strike-outs of its row keeps those of the table.
LEMMA PutKept ==
  ASSUME StoreInv, NEW role \in Roles, NEW row, Put(role, row),
         KeepsDisabled(row, store[role])
  PROVE  Kept
<1>1. \A x \in Roles : store'[x] = IF x = role THEN row ELSE store[x]
  BY DEF StoreInv, Put
<1>2. \A x \in Roles : KeepsDisabled(store[x], store[x])
  BY DEF KeepsDisabled
<1>. QED BY <1>1, <1>2 DEF Kept

\* An Upsert or a Delete on any row of the table.
LEMMA RewriteKept ==
  ASSUME StoreInv, NEW role \in Roles,
         \/ \E pin : Put(role, UpsertSessionPin(store[role], pin))
         \/ \E strategy : Put(role, DeleteSessionPin(store[role], strategy))
  PROVE  Kept
<1>1. ASSUME NEW pin, Put(role, UpsertSessionPin(store[role], pin)) PROVE Kept
  BY <1>1, UpsertKeepsDisabled, PutKept
<1>2. ASSUME NEW strategy, Put(role, DeleteSessionPin(store[role], strategy)) PROVE Kept
  <2>1. KeepsDisabled(DeleteSessionPin(store[role], strategy), store[role])
    BY DEF KeepsDisabled, DeleteSessionPin
  <2>. QED BY <1>2, <2>1, PutKept
<1>. QED BY <1>1, <1>2

\* An in-place statement on any row of the table.
LEMMA MutationKept ==
  ASSUME StoreInv, NEW role \in Roles, NEW strategy, NEW x, NEW usage,
         \/ Put(role, UpdateSessionPinUsage(store[role], usage))
         \/ Put(role, IncrementSessionPinUpstreamErrors(store[role], strategy, x))
         \/ Put(role, ResetSessionPinUpstreamErrors(store[role], strategy))
         \/ Put(role, IncrementSessionPinOverloadErrors(store[role], strategy, x))
         \/ Put(role, ResetSessionPinOverloadErrors(store[role], strategy))
         \/ Put(role, DisableSessionPinProvider(store[role], strategy, x))
  PROVE  Kept
<1>1. store[role] = NoRow \/ GoodRow(store[role])
  BY DEF StoreInv, GoodAt
<1>. QED BY <1>1, StatementsKeepDisabled, PutKept

\* No step of a request takes a strike-out back.
LEMMA StepKept ==
  ASSUME IInv, NEW r \in Requests, Step(r)
  PROVE  Kept
<1>. DEFINE q == req[r]
<1>1. StoreInv /\ {PinRole, HistRole, "cont", "hist_cont"} \subseteq Roles
  BY DEF IInv, Roles, PinRole, HistRole
<1>2. CASE InvalidateRoutingState(r)
  BY <1>1, <1>2, RewriteKept DEF InvalidateRoutingState, CleanRole
<1>3. CASE \/ loadPin(r) \/ loadHMMHistory(r) \/ ServeHMM(r) \/ RouteFailed(r)
           \/ DispatchTurn(r) \/ readPriorHistory(r) \/ evictPinAfterDegenerateResponse(r)
           \/ maybeExpireDeadArmPin(r) \/ readRefusalFallback(r)
  <2>1. UNCHANGED store
    BY <1>3, Zenon DEF loadPin, loadHMMHistory, ServeHMM, RouteFailed, DispatchTurn,
         readPriorHistory, evictPinAfterDegenerateResponse, maybeExpireDeadArmPin,
         readRefusalFallback
  <2>. QED BY <2>1, IdleKept
<1>4. CASE consumePostCommandContinuation(r)
  BY <1>1, <1>4, RewriteKept DEF consumePostCommandContinuation
<1>5. CASE grantPostCommandContinuation(r)
  <2>1. \/ Put("cont", UpsertSessionPin(store["cont"], PinOf(q.pin, q.strategy)))
        \/ UNCHANGED store
    BY <1>5 DEF grantPostCommandContinuation
  <2>. QED BY <1>1, <2>1, RewriteKept, IdleKept
<1>6. CASE \/ ServeContinuation(r) \/ ServePinned(r) \/ RouteFresh(r) \/ Reanchor(r)
           \/ DeadlineFallback(r)
  <2>1. \E pin : UpsertPin(pin)
    BY <1>6, Zenon DEF ServeContinuation, ServePinned, RouteFresh, Reanchor,
         DeadlineFallback, refreshPin, writeNewPin
  <2>. QED BY <1>1, <2>1, RewriteKept DEF UpsertPin
<1>7. CASE recordTurnUsage(r) \/ updateHistoryUsage(r)
  BY <1>1, <1>7, MutationKept DEF recordTurnUsage, updateHistoryUsage
<1>8. CASE upsertHMMHistory(r) \/ markHistoryExpired(r)
  <2>1. \E pin : Put(HistRole, UpsertSessionPin(store[HistRole], pin))
    BY <1>8, Zenon DEF upsertHMMHistory, markHistoryExpired
  <2>. QED BY <1>1, <2>1, RewriteKept
<1>9. CASE markExpired(r) \/ repinOnRefusal(r)
  <2>1. q.pc \in PostPCs
    BY <1>9 DEF markExpired, repinOnRefusal, PostPCs
  <2>2. q.expire.role \in Roles /\ stickyStateRole(q) \in Roles
    BY <2>1, PostFacts
  <2>3. \E role \in Roles : \E pin : Put(role, UpsertSessionPin(store[role], pin))
    BY <1>9, <2>2, Zenon DEF markExpired, repinOnRefusal
  <2>. QED BY <1>1, <2>3, RewriteKept
<1>10. CASE invalidatePostCommandContinuation(r)
  <2>1. commandContinuationRole(q.expire.role) \in Roles
    BY DEF commandContinuationRole, Roles
  <2>. QED BY <1>1, <1>10, <2>1, RewriteKept DEF invalidatePostCommandContinuation
<1>11. CASE \/ maybeEvictPinAfterUpstreamErr(r) \/ maybeDisableProviderAfterOverload(r)
            \/ disableProvider(r)
  <2>1. q.pc \in PostPCs
    BY <1>11 DEF maybeEvictPinAfterUpstreamErr, maybeDisableProviderAfterOverload,
         disableProvider, PostPCs
  <2>2. stickyStateRole(q) \in Roles
    BY <2>1, PostFacts
  <2>. QED BY <1>1, <1>11, <2>2, MutationKept
       DEF maybeEvictPinAfterUpstreamErr, maybeDisableProviderAfterOverload, disableProvider
<1>. QED BY <1>2, <1>3, <1>4, <1>5, <1>6, <1>7, <1>8, <1>9, <1>10, <1>11, Zenon
         DEF Step

\* Under one strategy a provider the session has struck out stays struck out:
\* through refreshes, switches, evictions, re-pins and late writebacks.
THEOREM StrikeOutsKept == Spec => DisabledKept
<1>1. IInv /\ [Next]_vars => [Kept]_vars
  <2>. SUFFICES ASSUME IInv, [Next]_vars PROVE Kept \/ UNCHANGED vars
    OBVIOUS
  <2>1. ASSUME NEW r \in Requests, Arrive(r) PROVE Kept
    <3>1. UNCHANGED store
      BY <2>1 DEF Arrive, BeginTurn, BeginCommand, ToggleBeta
    <3>. QED BY <3>1, IdleKept
  <2>2. ASSUME NEW r \in Requests, Step(r) PROVE Kept
    BY <2>2, StepKept
  <2>3. ASSUME NEW role \in Roles, LapseRow(role) PROVE Kept
    <3>. DEFINE n == [store[role] EXCEPT !.live = FALSE]
    <3>1. Put(role, n) /\ store[role] # NoRow
      BY <2>3, Zenon DEF LapseRow
    <3>2. GoodRow(store[role])
      BY <3>1 DEF IInv, StoreInv, GoodAt
    <3>3. n.disabled = store[role].disabled
      BY <3>2, LapsedGood, Zenon
    <3>. HIDE DEF n
    <3>4. KeepsDisabled(n, store[role])
      BY <3>3 DEF KeepsDisabled
    <3>. QED BY <3>1, <3>4, PutKept DEF IInv
  <2>4. ASSUME NEW role \in Roles, SweepExpiredSessionPins(role) PROVE Kept
    <3>1. KeepsDisabled(NoRow, store[role])
      BY DEF KeepsDisabled
    <3>. QED BY <2>4, <3>1, PutKept DEF SweepExpiredSessionPins, IInv
  <2>. QED BY <2>1, <2>2, <2>3, <2>4 DEF Next
<1>2. Kept => \A role \in Roles :
                /\ store[role] # NoRow
                /\ store'[role] # NoRow
                /\ store'[role].strategy = store[role].strategy
                => store[role].disabled \subseteq store'[role].disabled
  BY DEF Kept, KeepsDisabled
<1>. QED BY <1>1, <1>2, Invariance, PTL DEF Spec, DisabledKept

-----------------------------------------------------------------------------
(* What a step leaves in the request that takes it.                         *)

\* What the post-turn steps carry along, whatever they write.
Carries(n, q) ==
    /\ n.kind = q.kind /\ n.strategy = q.strategy /\ n.pin = q.pin
    /\ n.contFound = q.contFound /\ n.stale = q.stale
    /\ n.sticky = q.sticky /\ n.stickyRole = q.stickyRole /\ n.anchor = q.anchor
    /\ n.ever = q.ever /\ n.disabled = q.disabled
    /\ n.outcome = q.outcome /\ n.served = q.served

\* What a request begins with.
Blank(n) ==
    /\ n.pin = ZeroPin /\ n.contFound = FALSE /\ n.stale = FALSE
    /\ n.sticky = FALSE /\ n.stickyRole = PinRole /\ n.served = NoArm
    /\ n.disabled = {} /\ n.ever = FALSE /\ n.return = "idle"

Others(r) == \A s \in Requests \ {r} : req'[s] = req[s]

\* One request moves, the others do not.
LEMMA BecomeIs ==
  ASSUME ReqInv, NEW r \in Requests, NEW n, Become(r, n)
  PROVE  req'[r] = n /\ Others(r)
  BY DEF ReqInv, Become, Others

\* The updates of the post-turn steps leave the rest of the request alone.
LEMMA MovedCarries ==
  ASSUME NEW q \in ReqType, NEW pc
  PROVE  LET n == [q EXCEPT !.pc = pc] IN
         Carries(n, q) /\ n.pc = pc /\ n.return = q.return /\ n.expire = q.expire
  BY Zenon DEF ReqType, Carries

\* So does a read of the history row.
LEMMA HistCarries ==
  ASSUME NEW q \in ReqType, NEW row
  PROVE  LET n == [q EXCEPT !.hist = row] IN
         Carries(n, q) /\ n.pc = q.pc /\ n.return = q.return /\ n.expire = q.expire
  BY Zenon DEF ReqType, Carries

\* So does a read of the refusal fallback.
LEMMA FallbackCarries ==
  ASSUME NEW q \in ReqType, NEW arm
  PROVE  LET n == [q EXCEPT !.decision = arm] IN
         Carries(n, q) /\ n.pc = q.pc /\ n.return = q.return /\ n.expire = q.expire
  BY Zenon DEF ReqType, Carries

\* A post-turn step ends the request or carries it on.
LEMMA ContinueIs ==
  ASSUME ReqInv, NEW r \in Requests, NEW n \in ReqType, NEW pc, Continue(r, n, pc)
  PROVE  /\ Others(r)
         /\ pc = "idle" => req'[r] = Idle
         /\ pc # "idle" => /\ Carries(req'[r], n) /\ req'[r].pc = pc
                           /\ req'[r].return = n.return /\ req'[r].expire = n.expire
<1>1. CASE pc = "idle"
  BY <1>1, BecomeIs DEF Continue
<1>2. CASE pc # "idle"
  <2>. DEFINE m == [n EXCEPT !.pc = pc]
  <2>1. Become(r, m)
    BY <1>2, Zenon DEF Continue
  <2>2. Carries(m, n) /\ m.pc = pc /\ m.return = n.return /\ m.expire = n.expire
    BY MovedCarries, Zenon
  <2>. HIDE DEF m
  <2>. QED BY <1>2, <2>1, <2>2, BecomeIs
<1>. QED BY <1>1, <1>2

\* So does the beginning of an expiry.
LEMMA StartExpireIs ==
  ASSUME ReqInv, NEW r \in Requests, NEW q \in ReqType, NEW role, NEW history, NEW return,
         StartExpire(r, q, role, history, return)
  PROVE  /\ Others(r) /\ Carries(req'[r], q)
         /\ req'[r].pc = "mark" /\ req'[r].return = return /\ req'[r].expire.role = role
<1>. DEFINE expire == [role |-> role, history |-> history]
            m == [q EXCEPT !.pc = "mark", !.return = return, !.expire = expire]
<1>1. Become(r, m)
  BY Zenon DEF StartExpire
<1>2. expire.role = role
  OBVIOUS
<1>. HIDE DEF expire
<1>3. Carries(m, q) /\ m.pc = "mark" /\ m.return = return /\ m.expire = expire
  BY Zenon DEF ReqType, Carries
<1>. HIDE DEF m
<1>. QED BY <1>1, <1>2, <1>3, BecomeIs

\* What an arriving request begins with.
LEMMA ArriveIs ==
  ASSUME IInv, NEW r \in Requests, Arrive(r)
  PROVE  /\ req[r].pc = "idle" /\ Others(r) /\ Blank(req'[r])
         /\ req'[r].strategy = Strategy
         /\ UNCHANGED <<store, History>>
         /\ \/ req'[r].pc = "load" /\ UNCHANGED <<beta, commands>> /\ req'[r].kind \in {"main", "tool"}
            \/ /\ req'[r].pc = "load" /\ UNCHANGED beta /\ req'[r].kind = "command"
               /\ commands < MaxCommands
            \/ req'[r].pc = "clearPin" /\ UNCHANGED commands /\ req'[r].kind = "toggle"
<1>1. ASSUME NEW pc, NEW kind, NEW n, n = [Idle EXCEPT !.pc = pc, !.kind = kind, !.strategy = Strategy],
             Become(r, n)
      PROVE  /\ Others(r) /\ Blank(req'[r])
             /\ req'[r].strategy = Strategy /\ req'[r].pc = pc /\ req'[r].kind = kind
  <2>1. /\ n.pc = pc /\ n.kind = kind /\ n.strategy = Strategy
        /\ Blank(n)
    BY <1>1 DEF Idle, Blank
  <2>. QED BY <1>1, <2>1, BecomeIs DEF IInv
<1>2. CASE BeginTurn(r)
  <2>1. PICK kind \in TurnKinds :
          Become(r, [Idle EXCEPT !.pc = "load", !.kind = kind, !.strategy = Strategy])
    BY <1>2, Zenon DEF BeginTurn
  <2>2. kind \in {"main", "tool"}
    BY SessionConstants
  <2>. QED BY <1>1, <1>2, <2>1, <2>2 DEF BeginTurn, History
<1>3. CASE BeginCommand(r)
  BY <1>1, <1>3 DEF BeginCommand, History
<1>4. CASE ToggleBeta(r)
  BY <1>1, <1>4 DEF ToggleBeta, History
<1>. QED BY <1>2, <1>3, <1>4 DEF Arrive

\* The cleanup of a /beta toggle.
LEMMA CleanIs ==
  ASSUME IInv, NEW r \in Requests, InvalidateRoutingState(r)
  PROVE  /\ Others(r) /\ UNCHANGED <<beta, commands, History>>
         /\ req[r].pc \in {"clearPin", "clearHistory", "clearContinuation"}
         /\ \E role \in {PinRole, HistRole, "cont"} :
              /\ Put(role, DeleteSessionPin(store[role], req[r].strategy))
              /\ role = "cont" => req[r].pc = "clearContinuation"
              /\ role # "cont" => req[r].pc # "clearContinuation"
         /\ \/ req'[r] = Idle /\ req[r].pc = "clearContinuation"
            \/ /\ Carries(req'[r], req[r]) /\ req'[r].return = req[r].return
               /\ req'[r].pc \in {"clearHistory", "clearContinuation"}
               /\ req[r].pc # "clearContinuation"
<1>1. req[r] \in ReqType /\ ReqInv
  BY DEF IInv, ReqInv
<1>2. ASSUME NEW pc, Go(r, pc)
      PROVE  /\ Others(r) /\ Carries(req'[r], req[r]) /\ req'[r].pc = pc
             /\ req'[r].return = req[r].return
  <2>. DEFINE m == [req[r] EXCEPT !.pc = pc]
  <2>1. Become(r, m)
    BY <1>2, Zenon DEF Go
  <2>2. Carries(m, req[r]) /\ m.pc = pc /\ m.return = req[r].return
    BY <1>1, MovedCarries, Zenon
  <2>. HIDE DEF m
  <2>. QED BY <1>1, <2>1, <2>2, BecomeIs
<1>3. CASE CleanRole(r, "clearPin", PinRole, "clearHistory")
  BY <1>2, <1>3 DEF CleanRole, Bounds, PinRole
<1>4. CASE CleanRole(r, "clearHistory", HistRole, "clearContinuation")
  BY <1>2, <1>4 DEF CleanRole, Bounds, HistRole
<1>5. CASE CleanRole(r, "clearContinuation", "cont", "idle")
  <2>1. Done(r)
    BY <1>5 DEF CleanRole
  <2>2. req'[r] = Idle /\ Others(r)
    BY <1>1, <2>1, BecomeIs DEF Done
  <2>. QED BY <1>5, <2>2 DEF CleanRole, Bounds
<1>. QED BY <1>3, <1>4, <1>5 DEF InvalidateRoutingState

\* loadPin: a hit, or the zero pin.
LEMMA LoadIs ==
  ASSUME IInv, NEW r \in Requests, loadPin(r)
  PROVE  LET q == req[r]  n == req'[r] IN
         /\ q.pc = "load" /\ Others(r) /\ UNCHANGED <<store, beta, commands, History>>
         /\ n.pc \in {"grant", "history"} /\ (n.pc = "grant" => q.kind = "command")
         /\ n.kind = q.kind /\ n.strategy = q.strategy
         /\ n.contFound = q.contFound /\ n.stale = q.stale
         /\ n.sticky = q.sticky /\ n.stickyRole = q.stickyRole
         /\ n.outcome = q.outcome /\ n.served = q.served /\ n.return = q.return
<1>. DEFINE q == req[r]
            n == [ q EXCEPT !.pin   = IF Addressed(store[PinRole], q.strategy)
                                      THEN store[PinRole] ELSE ZeroPin,
                            !.found = Addressed(store[PinRole], q.strategy) /\ store[PinRole].live,
                            !.pc    = IF q.kind = "command" THEN "grant" ELSE "history" ]
<1>1. q \in ReqType /\ ReqInv
  BY DEF IInv, ReqInv
<1>2. q.pc = "load" /\ Become(r, n) /\ UNCHANGED <<store, beta, commands, History>>
  BY Zenon DEF loadPin, Bounds
<1>. HIDE DEF q
<1>3. /\ n.pc = (IF q.kind = "command" THEN "grant" ELSE "history")
      /\ n.kind = q.kind /\ n.strategy = q.strategy
      /\ n.contFound = q.contFound /\ n.stale = q.stale
      /\ n.sticky = q.sticky /\ n.stickyRole = q.stickyRole
      /\ n.outcome = q.outcome /\ n.served = q.served /\ n.return = q.return
  BY <1>1, Zenon DEF ReqType
<1>. HIDE DEF n
<1>4. req'[r] = n /\ Others(r)
  BY <1>1, <1>2, BecomeIs
<1>. QED BY <1>2, <1>3, <1>4 DEF q

\* loadHMMHistory: the evidence of the pin is part of the evidence of the turn.
LEMMA LoadHistoryIs ==
  ASSUME IInv, NEW r \in Requests, loadHMMHistory(r)
  PROVE  LET q == req[r]  n == req'[r] IN
         /\ q.pc = "history" /\ Others(r) /\ UNCHANGED <<store, beta, commands, History>>
         /\ n.pc \in {"consume", "route"}
         /\ n.kind = q.kind /\ n.strategy = q.strategy /\ n.pin = q.pin
         /\ n.contFound = q.contFound /\ n.stale = q.stale
         /\ n.sticky = q.sticky /\ n.stickyRole = q.stickyRole
         /\ n.outcome = q.outcome /\ n.served = q.served /\ n.return = q.return
         /\ q.pin.ever => n.ever
<1>. DEFINE q == req[r]
            hist == IF Addressed(store[HistRole], q.strategy) THEN store[HistRole] ELSE ZeroPin
            n == [ q EXCEPT !.hist     = hist,
                            !.disabled = q.pin.disabled \cup hist.disabled,
                            !.prior    = PriorServed(q.pin, hist),
                            !.ever     = EverSwitched(q.pin, hist),
                            !.pc       = IF q.kind = "main" THEN "consume" ELSE "route" ]
<1>1. q \in ReqType /\ ReqInv
  BY DEF IInv, ReqInv
<1>2. q.pc = "history" /\ Become(r, n) /\ UNCHANGED <<store, beta, commands, History>>
  BY Zenon DEF loadHMMHistory, Bounds
<1>. HIDE DEF q, hist
<1>3. /\ n.pc = (IF q.kind = "main" THEN "consume" ELSE "route")
      /\ n.kind = q.kind /\ n.strategy = q.strategy /\ n.pin = q.pin
      /\ n.contFound = q.contFound /\ n.stale = q.stale
      /\ n.sticky = q.sticky /\ n.stickyRole = q.stickyRole
      /\ n.outcome = q.outcome /\ n.served = q.served /\ n.return = q.return
      /\ n.ever = EverSwitched(q.pin, hist)
  BY <1>1, Zenon DEF ReqType
<1>. HIDE DEF n
<1>4. req'[r] = n /\ Others(r)
  BY <1>1, <1>2, BecomeIs
<1>. QED BY <1>2, <1>3, <1>4 DEF q, EverSwitched

\* consumePostCommandContinuation: a hit takes the row.
LEMMA ConsumeIs ==
  ASSUME IInv, NEW r \in Requests, consumePostCommandContinuation(r)
  PROVE  LET q == req[r]  n == req'[r]  hit == Consumable(store["cont"], q.strategy) IN
         /\ q.pc = "consume" /\ Others(r) /\ UNCHANGED <<beta, commands, granted, redeemed>>
         /\ Put("cont", DeleteSessionPin(store["cont"], q.strategy))
         /\ contStale' = (contStale /\ ~hit)
         /\ n.pc = "route" /\ n.contFound = hit /\ n.stale = (hit /\ contStale)
         /\ n.kind = q.kind /\ n.strategy = q.strategy /\ n.pin = q.pin
         /\ n.sticky = q.sticky /\ n.stickyRole = q.stickyRole /\ n.ever = q.ever
         /\ n.outcome = q.outcome /\ n.served = q.served /\ n.return = q.return
<1>. DEFINE q == req[r]
            hit == Consumable(store["cont"], q.strategy)
            n == [ q EXCEPT !.cont      = IF hit THEN store["cont"] ELSE ZeroPin,
                            !.contFound = hit,
                            !.stale     = hit /\ contStale,
                            !.pc        = "route" ]
<1>1. q \in ReqType /\ ReqInv
  BY DEF IInv, ReqInv
<1>2. /\ q.pc = "consume" /\ Become(r, n) /\ UNCHANGED <<beta, commands, granted, redeemed>>
      /\ Put("cont", DeleteSessionPin(store["cont"], q.strategy))
      /\ contStale' = (contStale /\ ~hit)
  BY Zenon DEF consumePostCommandContinuation, Bounds
<1>. HIDE DEF q, hit
<1>3. /\ n.pc = "route" /\ n.contFound = hit /\ n.stale = (hit /\ contStale)
      /\ n.kind = q.kind /\ n.strategy = q.strategy /\ n.pin = q.pin
      /\ n.sticky = q.sticky /\ n.stickyRole = q.stickyRole /\ n.ever = q.ever
      /\ n.outcome = q.outcome /\ n.served = q.served /\ n.return = q.return
  BY <1>1, Zenon DEF ReqType
<1>. HIDE DEF n
<1>4. req'[r] = n /\ Others(r)
  BY <1>1, <1>2, BecomeIs
<1>. QED BY <1>2, <1>3, <1>4, Zenon DEF q, hit

\* grantPostCommandContinuation: a live continuation of the command's strategy.
LEMMA GrantIs ==
  ASSUME IInv, NEW r \in Requests, grantPostCommandContinuation(r)
  PROVE  /\ req[r].pc = "grant" /\ Others(r) /\ req'[r] = Idle
         /\ UNCHANGED <<beta, commands, redeemed>>
         /\ \/ UNCHANGED <<store, contStale, granted>>
            \/ /\ Put("cont", UpsertSessionPin(store["cont"], PinOf(req[r].pin, req[r].strategy)))
               /\ contStale' = req[r].stale
               /\ granted' = granted + 1
<1>1. Done(r)
  BY DEF grantPostCommandContinuation
<1>2. req'[r] = Idle /\ Others(r)
  BY <1>1, BecomeIs DEF Done, IInv
<1>. QED BY <1>2 DEF grantPostCommandContinuation, Bounds

\* What the decision leaves as the turn loaded it.
Knows(n, q) ==
    /\ n.kind = q.kind /\ n.strategy = q.strategy /\ n.pin = q.pin
    /\ n.disabled = q.disabled /\ n.outcome = q.outcome /\ n.served = q.served
    /\ n.return = q.return

\* A decision of runTurnLoop: the routing pin, when it is written, is written
\* for the model the turn is charged to.
Deciding(r) ==
    LET q == req[r]  n == req'[r] IN
    /\ q.pc = "route" /\ Others(r) /\ UNCHANGED <<beta, commands, contStale, granted>>
    /\ n.pc = "dispatch" /\ n.contFound = FALSE /\ n.stale = FALSE /\ Knows(n, q)
    /\ q.contFound \/ (n.ever = q.ever /\ redeemed' = redeemed)
    /\ redeemed' \in {redeemed, redeemed + 1}
    /\ \/ UNCHANGED store /\ ~(n.sticky /\ n.stickyRole = PinRole)
       \/ \E pin : UpsertPin(pin) /\ pin.model = n.anchor

\* Every exit of runTurnLoop that dispatches is one.
LEMMA DecideIs ==
  ASSUME IInv, NEW r \in Requests,
         \/ ServeContinuation(r) \/ ServePinned(r) \/ RouteFresh(r) \/ Reanchor(r)
         \/ DeadlineFallback(r) \/ ServeHMM(r)
  PROVE  Deciding(r)
<1>. DEFINE q == req[r]
<1>1. q \in ReqType /\ ReqInv
  BY DEF IInv, ReqInv
<1>2. ASSUME NEW row PROVE ArmOf(row).model = row.model /\ PinOf(row, q.strategy).model = row.model
  BY DEF ArmOf, PinOf
<1>3. CASE ServeContinuation(r)
  <2>. DEFINE prior == PriorServed(q.cont, q.hist)
              ever  == EverSwitched(q.cont, q.hist)
              hmm   == q.cont.reason = "hmm_policy"
              n == [Decided(q, ArmOf(q.cont), TRUE, hmm) EXCEPT !.prior = prior, !.ever = ever]
  <2>1. /\ q.pc = "route" /\ q.contFound /\ UpsertPin(PinOf(q.cont, q.strategy)) /\ Become(r, n)
        /\ redeemed' = redeemed + 1 /\ UNCHANGED <<beta, commands, contStale, granted>>
    BY <1>3, Zenon DEF ServeContinuation, ContinuationUsable, refreshPin, Bounds
  <2>. HIDE DEF prior, ever, hmm, q
  <2>2. /\ n.pc = "dispatch" /\ n.contFound = FALSE /\ n.stale = FALSE
        /\ n.anchor = ArmOf(q.cont).model /\ Knows(n, q)
    BY <1>1, Zenon DEF ReqType, Decided, Knows
  <2>. HIDE DEF n
  <2>3. req'[r] = n /\ Others(r)
    BY <1>1, <2>1, BecomeIs
  <2>. QED BY <1>2, <2>1, <2>2, <2>3 DEF Deciding, q
<1>4. CASE ServePinned(r)
  <2>1. PICK arm \in SwapArms(q) :
          Become(r, [Decided(q, arm, TRUE, ServesHMM(q)) EXCEPT !.anchor = q.pin.model])
    BY <1>4, Zenon DEF ServePinned
  <2>2. /\ q.pc = "route" /\ UpsertPin(PinOf(q.pin, q.strategy))
        /\ UNCHANGED <<beta, commands, contStale, granted, redeemed>>
    BY <1>4 DEF ServePinned, refreshPin, Bounds, History
  <2>. DEFINE n == [Decided(q, arm, TRUE, ServesHMM(q)) EXCEPT !.anchor = q.pin.model]
  <2>. HIDE DEF q
  <2>3. /\ n.pc = "dispatch" /\ n.contFound = FALSE /\ n.stale = FALSE
        /\ n.anchor = q.pin.model /\ n.ever = q.ever /\ Knows(n, q)
    BY <1>1, Zenon DEF ReqType, Decided, Knows
  <2>. HIDE DEF n
  <2>4. req'[r] = n /\ Others(r)
    BY <1>1, <2>1, BecomeIs DEF n
  <2>. QED BY <1>2, <2>2, <2>3, <2>4 DEF Deciding, q
\* The exits whose pin and decision name the same arm.
<1>5. ASSUME NEW arm, NEW sticky, NEW hmm, NEW pin, pin.model = arm.model,
             Become(r, Decided(q, arm, sticky, hmm)), UpsertPin(pin), q.pc = "route",
             UNCHANGED <<beta, commands, contStale, granted, redeemed>>
      PROVE  Deciding(r)
  <2>. DEFINE n == Decided(q, arm, sticky, hmm)
  <2>1. /\ n.pc = "dispatch" /\ n.contFound = FALSE /\ n.stale = FALSE
        /\ n.anchor = arm.model /\ n.ever = q.ever /\ Knows(n, q)
    BY <1>1, Zenon DEF ReqType, Decided, Knows
  <2>2. req'[r] = n /\ Others(r)
    BY <1>1, <1>5, BecomeIs
  <2>. HIDE DEF n
  <2>. QED BY <1>5, <2>1, <2>2 DEF Deciding
<1>6. CASE RouteFresh(r)
  <2>1. q.pc = "route" /\ UNCHANGED <<beta, commands, contStale, granted, redeemed>>
    BY <1>6 DEF RouteFresh, Bounds, History
  <2>2. PICK arm, pair, reason, group :
          /\ writeNewPin(q, arm, pair, reason, group)
          /\ Become(r, Decided(q, arm, FALSE, IsHMM(q)))
    BY <1>6, Zenon DEF RouteFresh
  <2>. DEFINE pin == [ model |-> arm.model, provider |-> arm.provider, pair |-> pair,
                       reason |-> reason, strategy |-> q.strategy, group |-> group,
                       live |-> TRUE ]
  <2>3. UpsertPin(pin) /\ pin.model = arm.model
    BY <2>2 DEF writeNewPin
  <2>. HIDE DEF pin, q
  <2>. QED BY <1>5, <2>1, <2>2, <2>3
<1>7. CASE Reanchor(r)
  <2>1. /\ q.pc = "route" /\ UNCHANGED <<beta, commands, contStale, granted, redeemed>>
        /\ Become(r, Decided(q, ArmOf(q.pin), TRUE, FALSE))
    BY <1>7 DEF Reanchor, Bounds, History
  <2>. DEFINE pin == [ model |-> ArmOf(q.pin).model, provider |-> ArmOf(q.pin).provider,
                       pair |-> NoArm, reason |-> q.pin.reason, strategy |-> q.strategy,
                       group |-> NoModel, live |-> TRUE ]
  <2>2. UpsertPin(pin) /\ pin.model = ArmOf(q.pin).model
    BY <1>7 DEF Reanchor, writeNewPin
  <2>. HIDE DEF pin, q
  <2>. QED BY <1>5, <2>1, <2>2
<1>8. CASE DeadlineFallback(r)
  <2>1. q.pc = "route" /\ UNCHANGED <<beta, commands, contStale, granted, redeemed>>
    BY <1>8 DEF DeadlineFallback, Bounds, History
  <2>2. CASE refreshPin(q, q.pin) /\ Become(r, Decided(q, ArmOf(q.pin), TRUE, FALSE))
    BY <1>2, <1>5, <2>1, <2>2 DEF refreshPin
  <2>3. ASSUME NEW arm, writeNewPin(q, arm, NoArm, "deadline_default", NoModel),
               Become(r, Decided(q, arm, FALSE, FALSE))
        PROVE  Deciding(r)
    <3>. DEFINE pin == [ model |-> arm.model, provider |-> arm.provider, pair |-> NoArm,
                         reason |-> "deadline_default", strategy |-> q.strategy,
                         group |-> NoModel, live |-> TRUE ]
    <3>1. UpsertPin(pin) /\ pin.model = arm.model
      BY <2>3 DEF writeNewPin
    <3>. HIDE DEF pin, q
    <3>. QED BY <1>5, <2>1, <2>3, <3>1
  <2>. QED BY <1>8, <2>2, <2>3, Zenon DEF DeadlineFallback
<1>9. CASE ServeHMM(r)
  <2>1. q.pc = "route" /\ UNCHANGED <<store, beta, commands, contStale, granted, redeemed>>
    BY <1>9 DEF ServeHMM, Bounds, History
  <2>2. \/ \E arm : Become(r, [Decided(q, arm, FALSE, TRUE) EXCEPT !.anchor = NoModel])
        \/ \E arm : Become(r, [ Decided(q, arm, TRUE, TRUE) EXCEPT
                                  !.anchor = NoModel, !.stickyRole = HistRole ])
    BY <1>9, Zenon DEF ServeHMM
  <2>. HIDE DEF q
  <2>3. ASSUME NEW arm, Become(r, [Decided(q, arm, FALSE, TRUE) EXCEPT !.anchor = NoModel])
        PROVE  Deciding(r)
    <3>. DEFINE n == [Decided(q, arm, FALSE, TRUE) EXCEPT !.anchor = NoModel]
    <3>1. /\ n.pc = "dispatch" /\ n.contFound = FALSE /\ n.stale = FALSE
          /\ n.sticky = FALSE /\ n.ever = q.ever /\ Knows(n, q)
      BY <1>1, Zenon DEF ReqType, Decided, Knows
    <3>. HIDE DEF n
    <3>2. req'[r] = n /\ Others(r)
      BY <1>1, <2>3, BecomeIs DEF n
    <3>. QED BY <2>1, <3>1, <3>2 DEF Deciding, q
  <2>4. ASSUME NEW arm, Become(r, [ Decided(q, arm, TRUE, TRUE) EXCEPT
                                      !.anchor = NoModel, !.stickyRole = HistRole ])
        PROVE  Deciding(r)
    <3>. DEFINE n == [ Decided(q, arm, TRUE, TRUE) EXCEPT
                         !.anchor = NoModel, !.stickyRole = HistRole ]
    <3>1. /\ n.pc = "dispatch" /\ n.contFound = FALSE /\ n.stale = FALSE
          /\ n.stickyRole = HistRole /\ n.ever = q.ever /\ Knows(n, q)
      BY <1>1, Zenon DEF ReqType, Decided, Knows
    <3>. HIDE DEF n
    <3>2. req'[r] = n /\ Others(r)
      BY <1>1, <2>4, BecomeIs DEF n
    <3>. QED BY <2>1, <3>1, <3>2 DEF Deciding, q, PinRole, HistRole
  <2>. QED BY <2>2, <2>3, <2>4
<1>. QED BY <1>3, <1>4, <1>6, <1>7, <1>8, <1>9

\* The steps up to the upstream-error strike of a turn.
EarlyPCs == {"usage", "priorHistory", "upsertHistory", "historyUsage", "degenerate", "strike"}

\* How the post-turn steps follow each other: only a sticky turn is struck or
\* evicted for a degenerate reply, and an expiry returns to the strike only in
\* a turn that was served.
Chain(q) ==
    /\ q.pc \notin PostPCs => q.return = "idle"
    /\ q.pc = "degenerate" => q.sticky /\ q.outcome = "degenerate"
    /\ q.pc = "strike" => q.sticky
    /\ q.return \in EarlyPCs => q.return = "strike" /\ q.sticky /\ Served(q.outcome)

\* Where the steps of the chain may go.
LEMMA AfterChain ==
  ASSUME NEW q
  PROVE  /\ AfterOverload(q) \notin EarlyPCs /\ AfterDeadArm(q) \notin EarlyPCs
         /\ AfterStrike(q) \notin EarlyPCs
         /\ AfterDegenerate(q) \in EarlyPCs => AfterDegenerate(q) = "strike" /\ q.sticky
         /\ AfterUsage(q) \in EarlyPCs =>
              \/ AfterUsage(q) = "strike" /\ q.sticky
              \/ AfterUsage(q) = "degenerate" /\ q.sticky /\ q.outcome = "degenerate"
<1>1. AfterOverload(q) \notin EarlyPCs
  BY DEF AfterOverload, EarlyPCs
<1>2. AfterDeadArm(q) \notin EarlyPCs
  BY <1>1 DEF AfterDeadArm, EarlyPCs
<1>3. AfterStrike(q) \notin EarlyPCs
  BY <1>2 DEF AfterStrike, EarlyPCs
<1>4. AfterDegenerate(q) \in EarlyPCs => AfterDegenerate(q) = "strike" /\ q.sticky
  BY <1>3 DEF AfterDegenerate, EarlyPCs
<1>5. AfterUsage(q) \in EarlyPCs =>
        \/ AfterUsage(q) = "strike" /\ q.sticky
        \/ AfterUsage(q) = "degenerate" /\ q.sticky /\ q.outcome = "degenerate"
  BY <1>4 DEF AfterUsage
<1>. QED BY <1>1, <1>2, <1>3, <1>4, <1>5

\* The walk never ends a served turn on a provider the session has disabled.
LEMMA EndsEnabled ==
  ASSUME NEW q, q.decision \in RealArm, NEW arm, NEW outcome, NEW dead,
         CanEnd(q, arm, outcome, dead)
  PROVE  arm.provider \in q.disabled => ~Served(outcome)
<1>1. CASE outcome = "transient"
  BY <1>1 DEF Served
<1>2. CASE arm \in Reached(q)
  <2>1. PICK p \in resolveBindingsForDispatch(q, q.decision) :
          arm = [q.decision EXCEPT !.provider = p]
    BY <1>2 DEF Reached
  <2>2. arm.provider = p
    BY <2>1 DEF RealArm
  <2>3. p \notin q.disabled
    BY DEF resolveBindingsForDispatch
  <2>. QED BY <2>2, <2>3
<1>3. CASE arm \in SiblingArms(q)
  BY <1>3 DEF SiblingArms, EligibleArms
<1>. QED BY <1>1, <1>2, <1>3 DEF CanEnd

\* DispatchTurn: the turn is charged where it was decided.
LEMMA DispatchIs ==
  ASSUME IInv, NEW r \in Requests, DispatchTurn(r), Chain(req[r])
  PROVE  LET q == req[r]  n == req'[r] IN
         /\ q.pc = "dispatch" /\ Others(r) /\ UNCHANGED <<store, beta, commands, History>>
         /\ \/ n = Idle
            \/ /\ n.pc \in PostPCs /\ Chain(n)
               /\ n.kind = q.kind /\ n.strategy = q.strategy
               /\ n.contFound = q.contFound /\ n.stale = q.stale
               /\ n.sticky = q.sticky /\ n.stickyRole = q.stickyRole /\ n.anchor = q.anchor
               /\ n.served.provider \in n.disabled => ~Served(n.outcome)
<1>. DEFINE q == req[r]
<1>1. q.pc = "dispatch" /\ UNCHANGED <<store, beta, commands, History>>
  BY DEF DispatchTurn, Bounds
<1>2. PICK arm \in Ends(q), outcome \in Outcomes \cup {"transient"}, dead \in BOOLEAN :
        /\ CanEnd(q, arm, outcome, dead)
        /\ Continue(r, Result(q, arm, outcome, dead),
                    AfterDispatch(Result(q, arm, outcome, dead)))
  BY Zenon DEF DispatchTurn
<1>3. q \in ReqType /\ ReqInv /\ q.decision \in RealArm /\ GoodReq(q)
  BY <1>1 DEF IInv, ReqInv, GoodReq
<1>4. arm.provider \in q.disabled => ~Served(outcome)
  BY <1>2, <1>3, EndsEnabled
<1>5. arm \in RealArm /\ outcome \in OutcomeKinds
  <2>1. Reached(q) \subseteq RealArm
    BY <1>3, ReachReal DEF RealArm, Reached
  <2>2. SiblingArms(q) \subseteq RealArm
    BY EligibleReal DEF SiblingArms
  <2>. QED BY <1>2, <1>3, <2>1, <2>2, SessionConstants DEF Ends, OutcomeKinds
<1>. DEFINE m == Result(q, arm, outcome, dead)
<1>6. m \in ReqType
  BY <1>3, <1>5, ResultGood DEF GoodReq
<1>. HIDE DEF q
<1>7. /\ m.kind = q.kind /\ m.strategy = q.strategy /\ m.contFound = q.contFound
      /\ m.stale = q.stale /\ m.sticky = q.sticky /\ m.stickyRole = q.stickyRole
      /\ m.anchor = q.anchor /\ m.disabled = q.disabled /\ m.return = q.return
      /\ m.served = arm /\ m.outcome = outcome
  BY <1>3, Zenon DEF ReqType, Result
<1>. HIDE DEF m
<1>. DEFINE pc == AfterDispatch(m)
<1>8. /\ Others(r)
      /\ pc = "idle" => req'[r] = Idle
      /\ pc # "idle" => Carries(req'[r], m) /\ req'[r].pc = pc /\ req'[r].return = m.return
  BY <1>2, <1>3, <1>6, ContinueIs DEF m
<1>9. pc \in Later /\ (pc = "degenerate" => m.sticky /\ m.outcome = "degenerate")
      /\ (pc = "strike" => m.sticky)
  BY AfterLater, AfterChain DEF AfterDispatch, EarlyPCs
<1>10. q.return = "idle" /\ "idle" \notin EarlyPCs
  BY <1>1 DEF Chain, PostPCs, EarlyPCs, q
<1>. HIDE DEF pc
<1>11. CASE pc = "idle"
  BY <1>1, <1>8, <1>11 DEF q
<1>12. CASE pc # "idle"
  <2>1. pc \in PostPCs
    BY <1>9, <1>12 DEF Later
  <2>2. Chain(req'[r])
    BY <1>7, <1>8, <1>9, <1>10, <1>12, <2>1 DEF Chain, Carries
  <2>. QED BY <1>1, <1>4, <1>7, <1>8, <1>12, <2>1, <2>2 DEF q, Carries
<1>. QED BY <1>11, <1>12

\* A post-turn step: the request ends, or goes on with what it carries.
Posting(r) ==
    LET q == req[r]  n == req'[r] IN
    /\ q.pc \in PostPCs /\ Others(r) /\ UNCHANGED <<beta, commands, granted, redeemed>>
    /\ \/ n = Idle
       \/ /\ Carries(n, q) /\ n.pc \in PostPCs /\ Chain(n)
          /\ n.pc \in EarlyPCs => q.pc \in EarlyPCs \/ Served(q.outcome)

\* One link of the chain.
LEMMA LinkIs ==
  ASSUME IInv, NEW r \in Requests, req[r].pc \in PostPCs, Chain(req[r]),
         NEW m \in ReqType, Carries(m, req[r]), m.return = req[r].return,
         NEW pc \in PostPCs \cup {"idle"}, Continue(r, m, pc),
         pc \in EarlyPCs => req[r].pc \in EarlyPCs \/ Served(req[r].outcome),
         pc = "strike" => req[r].sticky,
         pc = "degenerate" => req[r].sticky /\ req[r].outcome = "degenerate",
         UNCHANGED <<beta, commands, granted, redeemed>>
  PROVE  Posting(r)
<1>1. ReqInv
  BY DEF IInv
<1>2. /\ Others(r) /\ (pc = "idle" => req'[r] = Idle)
      /\ pc # "idle" => Carries(req'[r], m) /\ req'[r].pc = pc /\ req'[r].return = m.return
  BY <1>1, ContinueIs
<1>3. CASE pc = "idle"
  BY <1>2, <1>3 DEF Posting
<1>4. CASE pc # "idle"
  <2>1. Carries(req'[r], req[r]) /\ req'[r].pc = pc /\ req'[r].return = req[r].return
    BY <1>2, <1>4 DEF Carries
  <2>2. Chain(req'[r])
    BY <1>4, <2>1 DEF Chain, Carries
  <2>. QED BY <1>2, <1>4, <2>1, <2>2 DEF Posting
<1>. QED BY <1>3, <1>4

\* The link that leads into an expiry.
LEMMA ExpireLinkIs ==
  ASSUME IInv, NEW r \in Requests, req[r].pc \in PostPCs, Chain(req[r]),
         NEW role, NEW history, NEW return, StartExpire(r, req[r], role, history, return),
         return \in EarlyPCs => return = "strike" /\ req[r].sticky /\ Served(req[r].outcome),
         UNCHANGED <<beta, commands, granted, redeemed>>
  PROVE  Posting(r)
<1>1. req[r] \in ReqType /\ ReqInv
  BY DEF IInv, ReqInv
<1>2. /\ Others(r) /\ Carries(req'[r], req[r])
      /\ req'[r].pc = "mark" /\ req'[r].return = return
  BY <1>1, StartExpireIs
<1>3. "mark" \in PostPCs /\ "mark" \notin EarlyPCs
  BY DEF PostPCs, EarlyPCs
<1>4. Chain(req'[r])
  BY <1>2, <1>3 DEF Chain, Carries
<1>. QED BY <1>2, <1>3, <1>4 DEF Posting

\* The post-turn steps but the mark of an expiry.
LEMMA PostIs ==
  ASSUME IInv, NEW r \in Requests, Chain(req[r]),
         \/ recordTurnUsage(r) \/ readPriorHistory(r) \/ upsertHMMHistory(r)
         \/ updateHistoryUsage(r) \/ invalidatePostCommandContinuation(r)
         \/ markHistoryExpired(r) \/ evictPinAfterDegenerateResponse(r)
         \/ maybeEvictPinAfterUpstreamErr(r) \/ maybeExpireDeadArmPin(r)
         \/ maybeDisableProviderAfterOverload(r) \/ disableProvider(r)
         \/ readRefusalFallback(r) \/ repinOnRefusal(r)
  PROVE  Posting(r)
<1>. DEFINE q == req[r]
<1>1. q \in ReqType /\ ReqInv /\ q.return \in PostPCs \cup {"idle"}
  BY GoodReqFields DEF IInv, ReqInv
<1>2. Carries(q, q)
  BY DEF Carries
<1>3. ASSUME NEW x PROVE /\ AfterOverload(x) \in PostPCs \cup {"idle"}
                         /\ AfterDeadArm(x) \in PostPCs \cup {"idle"}
                         /\ AfterStrike(x) \in PostPCs \cup {"idle"}
                         /\ AfterDegenerate(x) \in PostPCs \cup {"idle"}
                         /\ AfterUsage(x) \in PostPCs \cup {"idle"}
  BY AfterLater DEF Later
<1>4. CASE recordTurnUsage(r) \/ updateHistoryUsage(r)
  <2>1. /\ q.pc \in {"usage", "historyUsage"} /\ Continue(r, q, AfterUsage(q))
        /\ UNCHANGED <<beta, commands, granted, redeemed>>
    BY <1>4 DEF recordTurnUsage, updateHistoryUsage, Bounds, History
  <2>2. q.pc \in PostPCs /\ q.pc \in EarlyPCs
    BY <2>1 DEF PostPCs, EarlyPCs
  <2>3. /\ AfterUsage(q) = "strike" => q.sticky
        /\ AfterUsage(q) = "degenerate" => q.sticky /\ q.outcome = "degenerate"
    BY AfterChain DEF EarlyPCs
  <2>. QED BY <1>1, <1>2, <1>3, <2>1, <2>2, <2>3, LinkIs
<1>5. CASE readPriorHistory(r)
  <2>. DEFINE row == IF Addressed(store[HistRole], q.strategy) THEN store[HistRole] ELSE ZeroPin
              n == [q EXCEPT !.pc = "upsertHistory", !.hist = row]
  <2>1. q.pc = "priorHistory" /\ Become(r, n) /\ UNCHANGED <<beta, commands, granted, redeemed>>
    BY <1>5, Zenon DEF readPriorHistory, Bounds, History
  <2>. HIDE DEF row
  <2>2. Carries(n, q) /\ n.pc = "upsertHistory" /\ n.return = q.return
    BY <1>1, Zenon DEF ReqType, Carries
  <2>. HIDE DEF n
  <2>3. req'[r] = n /\ Others(r)
    BY <1>1, <2>1, BecomeIs
  <2>4. Chain(n) /\ n.pc \in PostPCs /\ q.pc \in PostPCs /\ q.pc \in EarlyPCs
    BY <2>1, <2>2 DEF Chain, Carries, PostPCs, EarlyPCs
  <2>. QED BY <2>1, <2>2, <2>3, <2>4 DEF Posting
<1>6. CASE upsertHMMHistory(r)
  <2>. DEFINE m == [q EXCEPT !.hist = ZeroPin]
              pc == IF Metered(q.outcome) THEN "historyUsage" ELSE AfterUsage(q)
  <2>1. /\ q.pc = "upsertHistory" /\ Continue(r, m, pc)
        /\ UNCHANGED <<beta, commands, granted, redeemed>>
    BY <1>6, Zenon DEF upsertHMMHistory, Bounds, History
  <2>2. q.pc \in PostPCs /\ q.pc \in EarlyPCs
    BY <2>1 DEF PostPCs, EarlyPCs
  <2>3. /\ pc \in PostPCs \cup {"idle"} /\ (pc = "strike" => q.sticky)
        /\ pc = "degenerate" => q.sticky /\ q.outcome = "degenerate"
    BY <1>3, AfterChain DEF EarlyPCs, PostPCs
  <2>. HIDE DEF pc
  <2>4. m \in ReqType
    BY <1>1, ZeroPinGood, HistSetGood DEF IInv, ReqInv, GoodReq
  <2>. HIDE DEF q
  <2>5. Carries(m, q) /\ m.return = q.return
    BY <1>1, HistCarries
  <2>. HIDE DEF m
  <2>. QED BY <1>1, <2>1, <2>2, <2>3, <2>4, <2>5, LinkIs DEF q
<1>7. CASE invalidatePostCommandContinuation(r) \/ markHistoryExpired(r)
  <2>1. /\ q.pc \in PostPCs /\ UNCHANGED <<beta, commands, granted, redeemed>>
        /\ \/ Continue(r, q, "markHistory") \/ Continue(r, q, q.return)
    BY <1>7 DEF invalidatePostCommandContinuation, markHistoryExpired, Bounds, History, PostPCs
  <2>2. "markHistory" \in PostPCs \cup {"idle"} /\ "markHistory" \notin EarlyPCs
    BY DEF PostPCs, EarlyPCs
  <2>3. CASE Continue(r, q, "markHistory")
    BY <1>1, <1>2, <2>1, <2>2, <2>3, LinkIs
  <2>4. CASE Continue(r, q, q.return)
    <3>1. q.return \in EarlyPCs => q.return = "strike" /\ q.sticky /\ Served(q.outcome)
      BY DEF Chain
    <3>2. "degenerate" \in EarlyPCs /\ "strike" \in EarlyPCs
      BY DEF EarlyPCs
    <3>. QED BY <1>1, <1>2, <2>1, <2>4, <3>1, <3>2, LinkIs
  <2>. QED BY <2>1, <2>3, <2>4
<1>8. CASE evictPinAfterDegenerateResponse(r)
  <2>1. /\ q.pc = "degenerate" /\ UNCHANGED <<beta, commands, granted, redeemed>>
        /\ StartExpire(r, q, stickyStateRole(q), FALSE, AfterDegenerate(q))
    BY <1>8 DEF evictPinAfterDegenerateResponse, Bounds, History
  <2>2. q.pc \in PostPCs /\ Served(q.outcome)
    BY <2>1 DEF PostPCs, Chain, Served
  <2>. QED BY <2>1, <2>2, AfterChain, ExpireLinkIs
<1>9. CASE \/ maybeEvictPinAfterUpstreamErr(r) \/ maybeExpireDeadArmPin(r)
           \/ maybeDisableProviderAfterOverload(r) \/ disableProvider(r)
  <2>1. /\ q.pc \in PostPCs /\ UNCHANGED <<beta, commands, granted, redeemed>>
        /\ \/ \E pc \in {AfterStrike(q), AfterOverload(q), "disable"} : Continue(r, q, pc)
           \/ \E role, history : \E return \in {AfterStrike(q), AfterDeadArm(q), AfterOverload(q)} :
                StartExpire(r, q, role, history, return)
    BY <1>9, Zenon DEF maybeEvictPinAfterUpstreamErr, maybeExpireDeadArmPin,
         maybeDisableProviderAfterOverload, disableProvider, Bounds, History, PostPCs
  <2>2. "disable" \in PostPCs \cup {"idle"} /\ "disable" \notin EarlyPCs
        /\ "strike" \in EarlyPCs /\ "degenerate" \in EarlyPCs
    BY DEF PostPCs, EarlyPCs
  <2>3. ASSUME NEW pc \in {AfterStrike(q), AfterOverload(q), "disable"}, Continue(r, q, pc)
        PROVE  Posting(r)
    <3>1. pc \in PostPCs \cup {"idle"} /\ pc \notin EarlyPCs
      BY <1>3, <2>2, AfterChain
    <3>. QED BY <1>1, <1>2, <2>1, <2>2, <2>3, <3>1, LinkIs
  <2>4. ASSUME NEW role, NEW history,
               NEW return \in {AfterStrike(q), AfterDeadArm(q), AfterOverload(q)},
               StartExpire(r, q, role, history, return)
        PROVE  Posting(r)
    BY <2>1, <2>4, AfterChain, ExpireLinkIs
  <2>. QED BY <2>1, <2>3, <2>4
<1>10. CASE readRefusalFallback(r)
  <2>. DEFINE fb == RefusalFallback(q)
              m  == [q EXCEPT !.decision = fb]
  <2>1. /\ q.pc = "refusalRead" /\ UNCHANGED <<beta, commands, granted, redeemed>>
        /\ Continue(r, m, IF fb.model \in {NoModel, q.served.model} \/ fb.provider = NoProvider
                          THEN "idle" ELSE "refusalWrite")
    BY <1>10, Zenon DEF readRefusalFallback, Bounds, History
  <2>. HIDE DEF fb
  <2>2. PICK pc \in {"idle", "refusalWrite"} : Continue(r, m, pc)
    BY <2>1, Zenon
  <2>3. CASE pc = "idle"
    <3>1. Become(r, Idle)
      BY <2>2, <2>3, Zenon DEF Continue
    <3>2. req'[r] = Idle /\ Others(r)
      BY <1>1, <3>1, BecomeIs
    <3>. QED BY <2>1, <3>2 DEF Posting, PostPCs
  <2>4. CASE pc = "refusalWrite"
    <3>. DEFINE n == [m EXCEPT !.pc = "refusalWrite"]
    <3>1. Become(r, n)
      BY <2>2, <2>4, Zenon DEF Continue
    <3>2. Carries(n, q) /\ n.pc = "refusalWrite" /\ n.return = q.return
      BY <1>1, Zenon DEF ReqType, Carries
    <3>. HIDE DEF n
    <3>3. req'[r] = n /\ Others(r)
      BY <1>1, <3>1, BecomeIs
    <3>4. Chain(n) /\ n.pc \in PostPCs /\ n.pc \notin EarlyPCs /\ q.pc \in PostPCs
      BY <2>1, <3>2 DEF Chain, Carries, PostPCs, EarlyPCs
    <3>. QED BY <2>1, <3>2, <3>3, <3>4 DEF Posting
  <2>. QED BY <2>2, <2>3, <2>4
<1>11. CASE repinOnRefusal(r)
  <2>1. q.pc = "refusalWrite" /\ Done(r) /\ UNCHANGED <<beta, commands, granted, redeemed>>
    BY <1>11 DEF repinOnRefusal, Bounds, History
  <2>2. req'[r] = Idle /\ Others(r)
    BY <1>1, <2>1, BecomeIs DEF Done
  <2>. QED BY <2>1, <2>2 DEF Posting, PostPCs
<1>. QED BY <1>4, <1>5, <1>6, <1>7, <1>8, <1>9, <1>10, <1>11

\* markExpired: the copies other requests hold go stale, nothing else moves.
LEMMA MarkIs ==
  ASSUME IInv, NEW r \in Requests, markExpired(r)
  PROVE  LET q == req[r]  n == req'[r] IN
         /\ q.pc = "mark" /\ UNCHANGED <<beta, commands, granted, redeemed>>
         /\ Carries(n, q) /\ n.pc = "invalidate" /\ n.return = q.return /\ n.expire = q.expire
         /\ q.expire.role \in {PinRole, HistRole}
         /\ Put(q.expire.role, UpsertSessionPin(store[q.expire.role], Marker(q.strategy)))
         /\ contStale' = (contStale \/ (q.expire.role = PinRole /\ store["cont"] # NoRow))
         /\ \A s \in Requests \ {r} : /\ req'[s].contFound = req[s].contFound
                                      /\ req'[s].pc = req[s].pc
                                      /\ req'[s].served = req[s].served
                                      /\ req'[s].disabled = req[s].disabled
                                      /\ req'[s].outcome = req[s].outcome
                                      /\ req'[s].kind = req[s].kind
                                      /\ req'[s].pin = req[s].pin
                                      /\ req'[s].ever = req[s].ever
                                      /\ Chain(req[s]) => Chain(req'[s])
<1>. DEFINE q == req[r]
            n == [q EXCEPT !.pc = "invalidate"]
<1>1. ReqInv /\ q \in ReqType /\ q.expire.role \in {PinRole, HistRole}
  BY GoodReqFields DEF IInv, ReqInv
<1>2. /\ q.pc = "mark" /\ UNCHANGED <<beta, commands, granted, redeemed>>
      /\ Put(q.expire.role, UpsertSessionPin(store[q.expire.role], Marker(q.strategy)))
      /\ contStale' = (contStale \/ (q.expire.role = PinRole /\ store["cont"] # NoRow))
      /\ req' = [s \in Requests |->
                   IF s = r THEN n
                   ELSE IF q.expire.role = PinRole THEN Outdated(req[s]) ELSE req[s]]
  BY Zenon DEF markExpired, Bounds
<1>3. Carries(n, q) /\ n.pc = "invalidate" /\ n.return = q.return /\ n.expire = q.expire
  BY <1>1, MovedCarries
<1>4. req'[r] = n
  BY <1>2, Zenon
<1>5. ASSUME NEW s \in Requests \ {r}
      PROVE  /\ req'[s].contFound = req[s].contFound /\ req'[s].pc = req[s].pc
             /\ req'[s].served = req[s].served /\ req'[s].disabled = req[s].disabled
             /\ req'[s].outcome = req[s].outcome /\ req'[s].kind = req[s].kind
             /\ req'[s].pin = req[s].pin /\ req'[s].ever = req[s].ever
             /\ Chain(req[s]) => Chain(req'[s])
  <2>1. req'[s] \in {req[s], Outdated(req[s])}
    BY <1>2, Zenon
  <2>2. req[s] \in ReqType
    BY <1>1 DEF ReqInv
  <2>. DEFINE x == req[s]
              m == Outdated(x)
  <2>. HIDE DEF x
  <2>3. /\ m.contFound = x.contFound /\ m.pc = x.pc /\ m.served = x.served
        /\ m.disabled = x.disabled /\ m.outcome = x.outcome /\ m.kind = x.kind
        /\ m.pin = x.pin /\ m.ever = x.ever /\ m.return = x.return /\ m.sticky = x.sticky
    BY <2>2, Zenon DEF ReqType, Outdated, x
  <2>. HIDE DEF m
  <2>. QED BY <2>1, <2>3 DEF Chain, x, m
<1>. QED BY <1>1, <1>2, <1>3, <1>4, <1>5

\* One statement writes one row.
LEMMA PutIs ==
  ASSUME StoreInv, NEW role \in Roles, NEW row, Put(role, row)
  PROVE  \A x \in Roles : store'[x] = IF x = role THEN row ELSE store[x]
  BY DEF StoreInv, Put

\* The post-turn statements but invalidatePostCommandContinuation leave the
\* continuation alone.
LEMMA PostStore ==
  ASSUME IInv, NEW r \in Requests,
         \/ recordTurnUsage(r) \/ readPriorHistory(r) \/ upsertHMMHistory(r)
         \/ updateHistoryUsage(r)
         \/ markHistoryExpired(r) \/ evictPinAfterDegenerateResponse(r)
         \/ maybeEvictPinAfterUpstreamErr(r) \/ maybeExpireDeadArmPin(r)
         \/ maybeDisableProviderAfterOverload(r) \/ disableProvider(r)
         \/ readRefusalFallback(r) \/ repinOnRefusal(r)
  PROVE  /\ store'["cont"] = store["cont"] /\ contStale' = contStale
         /\ req[r].pc # "invalidate"
<1>1. contStale' = contStale /\ req[r].pc # "invalidate"
  BY DEF recordTurnUsage, readPriorHistory, upsertHMMHistory, updateHistoryUsage,
         markHistoryExpired, evictPinAfterDegenerateResponse, maybeEvictPinAfterUpstreamErr,
         maybeExpireDeadArmPin, maybeDisableProviderAfterOverload, disableProvider,
         readRefusalFallback, repinOnRefusal, History
<1>2. stickyStateRole(req[r]) \in {PinRole, HistRole}
  BY GoodReqFields DEF IInv, ReqInv
<1>3. UNCHANGED store \/ \E role \in {PinRole, HistRole} : \E row : Put(role, row)
  BY <1>2, Zenon
     DEF recordTurnUsage, readPriorHistory, upsertHMMHistory, updateHistoryUsage,
         markHistoryExpired, evictPinAfterDegenerateResponse, maybeEvictPinAfterUpstreamErr,
         maybeExpireDeadArmPin, maybeDisableProviderAfterOverload, disableProvider,
         readRefusalFallback, repinOnRefusal
<1>4. "cont" \in Roles /\ {PinRole, HistRole} \subseteq Roles /\ "cont" \notin {PinRole, HistRole}
  BY DEF Roles, PinRole, HistRole
<1>. QED BY <1>1, <1>3, <1>4, PutIs DEF IInv

\* invalidatePostCommandContinuation.
LEMMA InvalidateIs ==
  ASSUME IInv, NEW r \in Requests, invalidatePostCommandContinuation(r)
  PROVE  LET q == req[r]  role == commandContinuationRole(req[r].expire.role) IN
         /\ q.pc = "invalidate"
         /\ store'["cont"] = IF role = "cont" THEN DeleteSessionPin(store["cont"], q.strategy)
                             ELSE store["cont"]
         /\ store'[PinRole] = store[PinRole]
         /\ contStale' = (contStale /\ (role = "cont" => ~Consumable(store["cont"], q.strategy)))
<1>. DEFINE q == req[r]
            role == commandContinuationRole(q.expire.role)
<1>1. /\ q.pc = "invalidate" /\ Put(role, DeleteSessionPin(store[role], q.strategy))
      /\ contStale' = (contStale /\ (role = "cont" => ~Consumable(store[role], q.strategy)))
  BY DEF invalidatePostCommandContinuation
<1>2. role \in {"cont", "hist_cont"} /\ role \in Roles /\ {"cont", PinRole} \subseteq Roles
      /\ PinRole \notin {"cont", "hist_cont"}
  BY DEF commandContinuationRole, Roles, PinRole
<1>3. StoreInv
  BY DEF IInv
<1>. HIDE DEF role, q
<1>4. \A x \in Roles : store'[x] = IF x = role THEN DeleteSessionPin(store[role], q.strategy)
                                   ELSE store[x]
  BY <1>1, <1>2, <1>3, PutIs
<1>5. CASE role = "cont"
  BY <1>1, <1>2, <1>4, <1>5 DEF role, q
<1>6. CASE role # "cont"
  BY <1>1, <1>2, <1>4, <1>6 DEF role, q
<1>. QED BY <1>5, <1>6

-----------------------------------------------------------------------------
(* The post-turn chain.                                                     *)

ChainInv == \A r \in Requests : Chain(req[r])

\* A request outside its post-turn steps.
LEMMA ChainStart ==
  ASSUME NEW q, q.pc \in PCs \ PostPCs, q.return = "idle"
  PROVE  Chain(q)
  BY DEF Chain, PCs, PostPCs, EarlyPCs

\* The request at rest.
LEMMA ChainIdle == Chain(Idle)
<1>1. Idle.pc = "idle" /\ Idle.return = "idle"
  BY DEF Idle
<1>. QED BY <1>1, ChainStart DEF PCs, PostPCs

\* A step of one request keeps its place in the chain, and every other one's.
LEMMA ChainStep ==
  ASSUME IInv, ChainInv, NEW r \in Requests, Arrive(r) \/ Step(r)
  PROVE  ChainInv'
<1>1. ASSUME Others(r), Chain(req'[r]) PROVE ChainInv'
  BY <1>1 DEF ChainInv, Others
<1>2. Chain(req[r])
  BY DEF ChainInv
<1>3. CASE Arrive(r)
  <2>1. Others(r) /\ req'[r].pc \in {"load", "clearPin"} /\ req'[r].return = "idle"
    BY <1>3, ArriveIs DEF Blank
  <2>. QED BY <1>1, <2>1, ChainStart DEF PCs, PostPCs
<1>4. CASE InvalidateRoutingState(r)
  <2>1. Others(r) /\ req[r].pc \in {"clearPin", "clearHistory", "clearContinuation"}
        /\ \/ req'[r] = Idle
           \/ /\ req'[r].pc \in {"clearHistory", "clearContinuation"}
              /\ req'[r].return = req[r].return
    BY <1>4, CleanIs
  <2>2. req[r].return = "idle"
    BY <1>2, <2>1 DEF Chain, PostPCs
  <2>. QED BY <1>1, <2>1, <2>2, ChainStart, ChainIdle DEF PCs, PostPCs
<1>5. CASE loadPin(r) \/ loadHMMHistory(r) \/ consumePostCommandContinuation(r)
  <2>1. /\ Others(r) /\ req[r].pc \in {"load", "history", "consume"}
        /\ req'[r].pc \in {"grant", "history", "consume", "route"}
        /\ req'[r].return = req[r].return
    BY <1>5, LoadIs, LoadHistoryIs, ConsumeIs
  <2>2. req[r].return = "idle"
    BY <1>2, <2>1 DEF Chain, PostPCs
  <2>. QED BY <1>1, <2>1, <2>2, ChainStart DEF PCs, PostPCs
<1>6. CASE grantPostCommandContinuation(r)
  BY <1>1, <1>6, GrantIs, ChainIdle
<1>7. CASE \/ ServeContinuation(r) \/ ServePinned(r) \/ RouteFresh(r) \/ Reanchor(r)
           \/ DeadlineFallback(r) \/ ServeHMM(r)
  <2>1. Deciding(r)
    BY <1>7, DecideIs
  <2>2. /\ Others(r) /\ req[r].pc = "route" /\ req'[r].pc = "dispatch"
        /\ req'[r].return = req[r].return
    BY <2>1 DEF Deciding, Knows
  <2>3. req[r].return = "idle"
    BY <1>2, <2>2 DEF Chain, PostPCs
  <2>. QED BY <1>1, <2>2, <2>3, ChainStart DEF PCs, PostPCs
<1>8. CASE RouteFailed(r)
  <2>1. req'[r] = Idle /\ Others(r)
    BY <1>8, BecomeIs DEF RouteFailed, Done, IInv
  <2>. QED BY <1>1, <2>1, ChainIdle
<1>9. CASE DispatchTurn(r)
  <2>1. Others(r) /\ (req'[r] = Idle \/ Chain(req'[r]))
    BY <1>2, <1>9, DispatchIs
  <2>. QED BY <1>1, <2>1, ChainIdle
<1>10. CASE markExpired(r)
  <2>1. /\ req[r].pc = "mark" /\ Carries(req'[r], req[r]) /\ req'[r].pc = "invalidate"
        /\ req'[r].return = req[r].return
        /\ \A s \in Requests \ {r} : Chain(req[s]) => Chain(req'[s])
    BY <1>10, MarkIs
  <2>2. Chain(req'[r])
    BY <1>2, <2>1 DEF Chain, Carries, PostPCs
  <2>. QED BY <2>1, <2>2 DEF ChainInv
<1>11. CASE \/ recordTurnUsage(r) \/ readPriorHistory(r) \/ upsertHMMHistory(r)
            \/ updateHistoryUsage(r) \/ invalidatePostCommandContinuation(r)
            \/ markHistoryExpired(r) \/ evictPinAfterDegenerateResponse(r)
            \/ maybeEvictPinAfterUpstreamErr(r) \/ maybeExpireDeadArmPin(r)
            \/ maybeDisableProviderAfterOverload(r) \/ disableProvider(r)
            \/ readRefusalFallback(r) \/ repinOnRefusal(r)
  <2>1. Posting(r)
    BY <1>2, <1>11, PostIs
  <2>. QED BY <1>1, <2>1, ChainIdle DEF Posting
<1>. QED BY <1>3, <1>4, <1>5, <1>6, <1>7, <1>8, <1>9, <1>10, <1>11, Zenon DEF Step

\* The chain is followed in every reachable state.
LEMMA ChainHolds == Spec => [](IInv /\ ChainInv)
<1>1. Init => ChainInv
  BY ChainIdle DEF Init, ChainInv
<1>2. IInv /\ ChainInv /\ [Next]_vars => ChainInv'
  <2>. SUFFICES ASSUME IInv, ChainInv, [Next]_vars PROVE ChainInv'
    OBVIOUS
  <2>1. CASE UNCHANGED req
    BY <2>1 DEF ChainInv
  <2>2. ASSUME NEW role \in Roles, LapseRow(role) \/ SweepExpiredSessionPins(role)
        PROVE  UNCHANGED req
    BY <2>2 DEF LapseRow, SweepExpiredSessionPins
  <2>. QED BY <2>1, <2>2, ChainStep DEF Next, vars
<1>. QED BY <1>1, <1>2, InitGood, NextGood, PTL DEF Spec

-----------------------------------------------------------------------------
(* A continuation serves at most one turn.                                  *)

\* The requests that took a continuation out of the table and still hold it.
Held == {r \in Requests : req[r].contFound}

Stored == IF store["cont"] = NoRow THEN 0 ELSE 1

\* Every grant is spent at most once: it is in the table, in the hands of one
\* request, or redeemed.
HeldInv == IsFiniteSet(Held) /\ redeemed + Cardinality(Held) + Stored <= granted

\* What a step may do to the balance.
Balanced(r) ==
    LET q == req[r]  n == req'[r] IN
    /\ \A s \in Requests \ {r} : req'[s].contFound = req[s].contFound
    /\ \/ /\ n.contFound => q.contFound
          /\ store'["cont"] # NoRow => store["cont"] # NoRow
          /\ UNCHANGED <<granted, redeemed>>
       \/ /\ store["cont"] # NoRow /\ store'["cont"] = NoRow
          /\ UNCHANGED <<granted, redeemed>>
       \/ /\ n.contFound => q.contFound
          /\ granted' = granted + 1 /\ redeemed' = redeemed
       \/ /\ q.contFound /\ ~n.contFound
          /\ store'["cont"] # NoRow => store["cont"] # NoRow
          /\ granted' = granted /\ redeemed' = redeemed + 1

\* A step that keeps the balance keeps the invariant.
LEMMA BalanceKept ==
  ASSUME IInv, HeldInv, NEW r \in Requests, Balanced(r)
  PROVE  HeldInv'
<1>1. granted \in Nat /\ redeemed \in Nat /\ Cardinality(Held) \in Nat /\ IsFiniteSet(Held)
  BY FS_CardinalityType DEF IInv, CountInv, HeldInv
<1>2. \A s \in Requests \ {r} : s \in Held' <=> s \in Held
  BY DEF Balanced, Held
<1>3. Held' \subseteq Requests /\ Held \subseteq Requests
  BY DEF Held
<1>4. CASE req'[r].contFound /\ ~req[r].contFound
  <2>1. Held' = Held \cup {r} /\ r \notin Held
    BY <1>2, <1>3, <1>4 DEF Held
  <2>2. IsFiniteSet(Held') /\ Cardinality(Held') = Cardinality(Held) + 1
    BY <1>1, <2>1, FS_AddElement
  <2>3. /\ store["cont"] # NoRow /\ store'["cont"] = NoRow
        /\ UNCHANGED <<granted, redeemed>>
    BY <1>4 DEF Balanced
  <2>. QED BY <1>1, <2>2, <2>3 DEF HeldInv, Stored
<1>5. CASE ~req'[r].contFound /\ req[r].contFound
  <2>1. Held' = Held \ {r} /\ r \in Held
    BY <1>2, <1>3, <1>5 DEF Held
  <2>2. IsFiniteSet(Held') /\ Cardinality(Held') = Cardinality(Held) - 1
    BY <1>1, <2>1, FS_RemoveElement
  <2>. QED BY <1>1, <2>2 DEF HeldInv, Stored, Balanced
<1>6. CASE req'[r].contFound <=> req[r].contFound
  <2>1. Held' = Held
    BY <1>2, <1>3, <1>6 DEF Held
  <2>2. HeldInv' = (IsFiniteSet(Held) /\ redeemed' + Cardinality(Held) + Stored' <= granted')
    BY <2>1 DEF HeldInv
  <2>. QED BY <1>1, <1>6, <2>2 DEF HeldInv, Stored, Balanced
<1>. QED BY <1>4, <1>5, <1>6

\* Every step of a request keeps the balance.
LEMMA StepBalanced ==
  ASSUME IInv, ChainInv, NEW r \in Requests, Arrive(r) \/ Step(r)
  PROVE  Balanced(r)
<1>1. Chain(req[r]) /\ StoreInv
  BY DEF ChainInv, IInv
<1>2. ASSUME Others(r) PROVE \A s \in Requests \ {r} : req'[s].contFound = req[s].contFound
  BY <1>2 DEF Others
<1>3. Idle.contFound = FALSE
  BY DEF Idle
<1>4. ASSUME NEW role \in Roles, NEW row, Put(role, row), row = NoRow \/ role # "cont"
      PROVE  store'["cont"] # NoRow => store["cont"] # NoRow
  <2>1. "cont" \in Roles
    BY DEF Roles
  <2>. QED BY <1>1, <1>4, <2>1, PutIs
<1>5. ASSUME NEW role \in Roles, NEW strategy, Put(role, DeleteSessionPin(store[role], strategy))
      PROVE  store'["cont"] # NoRow => store["cont"] # NoRow
  <2>1. "cont" \in Roles /\ DeleteSessionPin(store[role], strategy) \in {NoRow, store[role]}
    BY DEF Roles, DeleteSessionPin
  <2>. QED BY <1>1, <1>5, <2>1, PutIs
<1>6. CASE Arrive(r)
  <2>1. /\ Others(r) /\ Blank(req'[r]) /\ UNCHANGED <<store, History>>
    BY <1>6, ArriveIs
  <2>. QED BY <1>2, <2>1 DEF Balanced, Blank, History
<1>7. CASE InvalidateRoutingState(r)
  <2>1. /\ Others(r) /\ UNCHANGED History
        /\ \E role \in {PinRole, HistRole, "cont"} :
              Put(role, DeleteSessionPin(store[role], req[r].strategy))
        /\ req'[r] = Idle \/ Carries(req'[r], req[r])
    BY <1>7, CleanIs
  <2>2. store'["cont"] # NoRow => store["cont"] # NoRow
    BY <1>5, <2>1 DEF Roles, PinRole, HistRole
  <2>. QED BY <1>2, <1>3, <2>1, <2>2 DEF Balanced, Carries, History
<1>8. CASE loadPin(r) \/ loadHMMHistory(r)
  <2>1. /\ Others(r) /\ UNCHANGED <<store, History>> /\ req'[r].contFound = req[r].contFound
    BY <1>8, LoadIs, LoadHistoryIs
  <2>. QED BY <1>2, <2>1 DEF Balanced, History
<1>9. CASE consumePostCommandContinuation(r)
  <2>1. /\ Others(r) /\ UNCHANGED <<granted, redeemed>>
        /\ Put("cont", DeleteSessionPin(store["cont"], req[r].strategy))
        /\ req'[r].contFound = Consumable(store["cont"], req[r].strategy)
    BY <1>9, ConsumeIs
  <2>2. store'["cont"] = DeleteSessionPin(store["cont"], req[r].strategy)
    BY <1>1, <2>1, PutIs DEF Roles
  <2>. QED BY <1>2, <2>1, <2>2 DEF Balanced, DeleteSessionPin, Consumable, Addressed
<1>10. CASE grantPostCommandContinuation(r)
  <2>1. /\ Others(r) /\ req'[r] = Idle /\ redeemed' = redeemed
        /\ UNCHANGED <<store, granted>> \/ granted' = granted + 1
    BY <1>10, GrantIs
  <2>. QED BY <1>2, <1>3, <2>1 DEF Balanced
<1>11. CASE \/ ServeContinuation(r) \/ ServePinned(r) \/ RouteFresh(r) \/ Reanchor(r)
            \/ DeadlineFallback(r) \/ ServeHMM(r)
  <2>1. Deciding(r)
    BY <1>11, DecideIs
  <2>2. store'["cont"] # NoRow => store["cont"] # NoRow
    BY <1>4, <2>1 DEF Deciding, UpsertPin, Roles, PinRole
  <2>. QED BY <1>2, <2>1, <2>2 DEF Balanced, Deciding
<1>12. CASE RouteFailed(r)
  <2>1. req'[r] = Idle /\ Others(r) /\ UNCHANGED <<store, History>>
    BY <1>12, BecomeIs DEF RouteFailed, Done, IInv
  <2>. QED BY <1>2, <1>3, <2>1 DEF Balanced, History
<1>13. CASE DispatchTurn(r)
  <2>1. /\ Others(r) /\ UNCHANGED <<store, History>>
        /\ req'[r] = Idle \/ req'[r].contFound = req[r].contFound
    BY <1>1, <1>13, DispatchIs
  <2>. QED BY <1>2, <1>3, <2>1 DEF Balanced, History
<1>14. CASE markExpired(r)
  <2>1. /\ \A s \in Requests \ {r} : req'[s].contFound = req[s].contFound
        /\ Carries(req'[r], req[r]) /\ UNCHANGED <<granted, redeemed>>
        /\ \E role \in {PinRole, HistRole} : \E row : Put(role, row)
    BY <1>14, MarkIs
  <2>2. store'["cont"] # NoRow => store["cont"] # NoRow
    BY <1>4, <2>1 DEF Roles, PinRole, HistRole
  <2>. QED BY <2>1, <2>2 DEF Balanced, Carries
<1>15. CASE invalidatePostCommandContinuation(r)
  <2>1. Posting(r)
    BY <1>1, <1>15, PostIs
  <2>2. store'["cont"] \in {store["cont"], DeleteSessionPin(store["cont"], req[r].strategy)}
    BY <1>15, InvalidateIs
  <2>. QED BY <1>2, <1>3, <2>1, <2>2 DEF Balanced, Posting, Carries, DeleteSessionPin
<1>16. CASE \/ recordTurnUsage(r) \/ readPriorHistory(r) \/ upsertHMMHistory(r)
            \/ updateHistoryUsage(r)
            \/ markHistoryExpired(r) \/ evictPinAfterDegenerateResponse(r)
            \/ maybeEvictPinAfterUpstreamErr(r) \/ maybeExpireDeadArmPin(r)
            \/ maybeDisableProviderAfterOverload(r) \/ disableProvider(r)
            \/ readRefusalFallback(r) \/ repinOnRefusal(r)
  <2>1. Posting(r)
    BY <1>1, <1>16, PostIs
  <2>2. store'["cont"] = store["cont"]
    BY <1>16, PostStore
  <2>. QED BY <1>2, <1>3, <2>1, <2>2 DEF Balanced, Posting, Carries
<1>. QED BY <1>6, <1>7, <1>8, <1>9, <1>10, <1>11, <1>12, <1>13, <1>14, <1>15, <1>16, Zenon
         DEF Step

\* However many turns arrive at once, and whatever expires, toggles or clears
\* in between, a continuation serves at most one turn per grant.
THEOREM OneShot == Spec => []ContinuationOneShot
<1>1. Init => HeldInv
  <2>. SUFFICES ASSUME Init PROVE HeldInv
    OBVIOUS
  <2>1. Held = {}
    BY DEF Init, Held, Idle
  <2>2. store["cont"] = NoRow
    BY DEF Init, Roles, PinRole
  <2>. QED BY <2>1, <2>2, FS_EmptySet DEF Init, HeldInv, Stored
<1>2. IInv /\ ChainInv /\ HeldInv /\ [Next]_vars => HeldInv'
  <2>. SUFFICES ASSUME IInv, ChainInv, HeldInv, [Next]_vars PROVE HeldInv'
    OBVIOUS
  <2>1. ASSUME NEW r \in Requests, Arrive(r) \/ Step(r) PROVE HeldInv'
    BY <2>1, StepBalanced, BalanceKept
  <2>2. ASSUME UNCHANGED <<req, granted, redeemed>>,
               store'["cont"] # NoRow => store["cont"] # NoRow
        PROVE  HeldInv'
    <3>1. Held' = Held
      BY <2>2 DEF Held
    <3>2. granted \in Nat /\ redeemed \in Nat /\ Cardinality(Held) \in Nat
      BY FS_CardinalityType DEF IInv, CountInv, HeldInv
    <3>. QED BY <2>2, <3>1, <3>2 DEF HeldInv, Stored
  <2>3. ASSUME NEW role \in Roles, LapseRow(role) \/ SweepExpiredSessionPins(role) PROVE HeldInv'
    <3>1. /\ UNCHANGED <<req, granted, redeemed>> /\ store[role] # NoRow
          /\ \E row : Put(role, row)
      BY <2>3, Zenon DEF LapseRow, SweepExpiredSessionPins, History
    <3>2. store'["cont"] # NoRow => store["cont"] # NoRow
      BY <3>1, PutIs DEF IInv, Roles
    <3>. QED BY <2>2, <3>1, <3>2
  <2>4. CASE UNCHANGED vars
    BY <2>2, <2>4 DEF vars
  <2>. QED BY <2>1, <2>3, <2>4 DEF Next
<1>3. IInv /\ HeldInv => ContinuationOneShot
  BY FS_CardinalityType DEF IInv, CountInv, HeldInv, Stored, ContinuationOneShot
<1>. QED BY <1>1, <1>2, <1>3, ChainHolds, PTL DEF Spec

-----------------------------------------------------------------------------
(* A struck-out provider never serves.                                      *)

\* Nothing has been served before the dispatch, and what ended the dispatch
\* stays recorded to the end of the request.
ServedInv ==
    \A r \in Requests :
        /\ req[r].pc \in PostPCs /\ req[r].served.provider \in req[r].disabled
             => ~Served(req[r].outcome)
        /\ req[r].pc \notin PostPCs => req[r].served = NoArm

\* A step of a request.
LEMMA ServedStep ==
  ASSUME IInv, ChainInv, ServedInv, NEW r \in Requests, Arrive(r) \/ Step(r)
  PROVE  ServedInv'
<1>1. Chain(req[r])
  BY DEF ChainInv
<1>2. ASSUME Others(r), req'[r].pc \notin PostPCs /\ req'[r].served = NoArm PROVE ServedInv'
  BY <1>2 DEF ServedInv, Others
<1>3. Idle.pc \notin PostPCs /\ Idle.served = NoArm
  BY DEF Idle, PostPCs
<1>4. CASE Arrive(r)
  <2>1. /\ Others(r) /\ Blank(req'[r]) /\ req'[r].pc \in {"load", "clearPin"}
    BY <1>4, ArriveIs
  <2>. QED BY <1>2, <2>1 DEF Blank, PostPCs
<1>5. CASE InvalidateRoutingState(r)
  <2>1. /\ Others(r) /\ req[r].pc \in {"clearPin", "clearHistory", "clearContinuation"}
        /\ \/ req'[r] = Idle
           \/ /\ Carries(req'[r], req[r])
              /\ req'[r].pc \in {"clearHistory", "clearContinuation"}
    BY <1>5, CleanIs
  <2>. QED BY <1>2, <1>3, <2>1 DEF ServedInv, Carries, PostPCs
<1>6. CASE loadPin(r) \/ loadHMMHistory(r) \/ consumePostCommandContinuation(r)
  <2>1. /\ Others(r) /\ req[r].pc \in {"load", "history", "consume"}
        /\ req'[r].pc \in {"grant", "history", "consume", "route"}
        /\ req'[r].served = req[r].served
    BY <1>6, LoadIs, LoadHistoryIs, ConsumeIs
  <2>. QED BY <1>2, <2>1 DEF ServedInv, PostPCs
<1>7. CASE grantPostCommandContinuation(r)
  BY <1>2, <1>3, <1>7, GrantIs
<1>8. CASE \/ ServeContinuation(r) \/ ServePinned(r) \/ RouteFresh(r) \/ Reanchor(r)
           \/ DeadlineFallback(r) \/ ServeHMM(r)
  <2>1. Deciding(r)
    BY <1>8, DecideIs
  <2>. QED BY <1>2, <2>1 DEF ServedInv, Deciding, Knows, PostPCs
<1>9. CASE RouteFailed(r)
  <2>1. req'[r] = Idle /\ Others(r)
    BY <1>9, BecomeIs DEF RouteFailed, Done, IInv
  <2>. QED BY <1>2, <1>3, <2>1
<1>10. CASE DispatchTurn(r)
  <2>1. /\ Others(r)
        /\ \/ req'[r] = Idle
           \/ /\ req'[r].pc \in PostPCs
              /\ req'[r].served.provider \in req'[r].disabled => ~Served(req'[r].outcome)
    BY <1>1, <1>10, DispatchIs
  <2>. QED BY <1>2, <1>3, <2>1 DEF ServedInv, Others
<1>11. CASE markExpired(r)
  <2>1. /\ req[r].pc = "mark" /\ Carries(req'[r], req[r]) /\ req'[r].pc = "invalidate"
        /\ \A s \in Requests \ {r} : /\ req'[s].pc = req[s].pc
                                     /\ req'[s].served = req[s].served
                                     /\ req'[s].disabled = req[s].disabled
                                     /\ req'[s].outcome = req[s].outcome
    BY <1>11, MarkIs
  <2>. QED BY <2>1 DEF ServedInv, Carries, PostPCs
<1>12. CASE \/ recordTurnUsage(r) \/ readPriorHistory(r) \/ upsertHMMHistory(r)
            \/ updateHistoryUsage(r) \/ invalidatePostCommandContinuation(r)
            \/ markHistoryExpired(r) \/ evictPinAfterDegenerateResponse(r)
            \/ maybeEvictPinAfterUpstreamErr(r) \/ maybeExpireDeadArmPin(r)
            \/ maybeDisableProviderAfterOverload(r) \/ disableProvider(r)
            \/ readRefusalFallback(r) \/ repinOnRefusal(r)
  <2>1. Posting(r)
    BY <1>1, <1>12, PostIs
  <2>. QED BY <1>2, <1>3, <2>1 DEF ServedInv, Posting, Carries, Others
<1>. QED BY <1>4, <1>5, <1>6, <1>7, <1>8, <1>9, <1>10, <1>11, <1>12, Zenon DEF Step

\* Failover included, no turn is served by a provider that the rows it loaded
\* had struck out, whatever other turns of the session do meanwhile.
THEOREM DisabledNeverServe == Spec => []DisabledNeverServes
<1>1. Init => ServedInv
  BY DEF Init, ServedInv, Idle, PostPCs
<1>2. IInv /\ ChainInv /\ ServedInv /\ [Next]_vars => ServedInv'
  <2>. SUFFICES ASSUME IInv, ChainInv, ServedInv, [Next]_vars PROVE ServedInv'
    OBVIOUS
  <2>1. CASE UNCHANGED req
    BY <2>1 DEF ServedInv
  <2>2. ASSUME NEW role \in Roles, LapseRow(role) \/ SweepExpiredSessionPins(role)
        PROVE  UNCHANGED req
    BY <2>2 DEF LapseRow, SweepExpiredSessionPins
  <2>. QED BY <2>1, <2>2, ServedStep DEF Next, vars
<1>3. IInv /\ ServedInv => DisabledNeverServes
  <2>1. IInv => \A r \in Requests : req[r].disabled \subseteq Providers
    BY GoodReqFields DEF IInv, ReqInv
  <2>2. NoArm.provider \notin Providers
    BY StoreConstants DEF NoArm
  <2>. QED BY <2>1, <2>2 DEF ServedInv, DisabledNeverServes
<1>. QED BY <1>1, <1>2, <1>3, ChainHolds, PTL DEF Spec

-----------------------------------------------------------------------------
(* One turn at a time: a clear of the pin is never undone.                  *)

ClearPCs == {"clearPin", "clearHistory", "clearContinuation"}

LiveCont == store["cont"] # NoRow /\ store["cont"].live

\* A live continuation belongs to the strategy the session runs, or just left;
\* one that predates a clear is about to be deleted by the turn that cleared.
ClearOf(q) ==
    /\ q.stale = FALSE
    /\ q.pc \notin {"idle"} \cup ClearPCs => q.strategy = Strategy
    /\ LiveCont => store["cont"].strategy = IF q.pc \in ClearPCs THEN q.strategy ELSE Strategy
    /\ contStale /\ LiveCont => q.pc = "invalidate" /\ q.expire.role = PinRole

ClearInv == \A r \in Requests : ClearOf(req[r])

\* A step that leaves the continuation and the strategy alone.
LEMMA ClearFrame ==
  ASSUME NEW r \in Requests, ClearOf(req[r]), req[r].pc # "invalidate", req'[r].stale = FALSE,
         UNCHANGED <<beta, contStale>>, store'["cont"] = store["cont"],
         req[r].pc \notin ClearPCs, req'[r].pc \notin ClearPCs,
         req'[r].pc = "idle" \/ (req[r].pc # "idle" /\ req'[r].strategy = req[r].strategy)
  PROVE  ClearOf(req[r])'
  BY DEF ClearOf, LiveCont, Strategy, ClearPCs

\* A step of the only request there is.
LEMMA ClearStep ==
  ASSUME IInv, ChainInv, ClearInv, NEW r \in Requests, \A s \in Requests : s = r,
         Arrive(r) \/ Step(r)
  PROVE  ClearInv'
<1>. DEFINE q == req[r]  n == req'[r]
<1>1. Chain(q) /\ ClearOf(q) /\ StoreInv /\ q \in ReqType
  BY DEF ChainInv, ClearInv, IInv, ReqInv
<1>2. ASSUME ClearOf(req[r])' PROVE ClearInv'
  BY <1>2 DEF ClearInv
<1>3. Idle.stale = FALSE /\ Idle.pc = "idle"
  BY DEF Idle
<1>4. {"cont", PinRole, HistRole} \subseteq Roles /\ "cont" \notin {PinRole, HistRole}
  BY DEF Roles, PinRole, HistRole
<1>5. CASE Arrive(r)
  <2>1. /\ q.pc = "idle" /\ n.stale = FALSE /\ n.strategy = Strategy
        /\ UNCHANGED <<store, History>>
        /\ (n.pc = "load" /\ UNCHANGED beta) \/ n.pc = "clearPin"
    BY <1>5, ArriveIs DEF Blank
  <2>2. ClearOf(req[r])'
    BY <1>1, <2>1 DEF ClearOf, LiveCont, Strategy, ClearPCs, History
  <2>. QED BY <1>2, <2>2
<1>6. CASE InvalidateRoutingState(r)
  <2>1. /\ q.pc \in ClearPCs /\ UNCHANGED <<beta, History>>
        /\ \/ n = Idle /\ q.pc = "clearContinuation"
           \/ Carries(n, q) /\ n.pc \in ClearPCs /\ q.pc # "clearContinuation"
    BY <1>6, CleanIs DEF ClearPCs
  <2>2. PICK role \in {PinRole, HistRole, "cont"} :
          /\ Put(role, DeleteSessionPin(store[role], q.strategy))
          /\ role = "cont" => q.pc = "clearContinuation"
          /\ role # "cont" => q.pc # "clearContinuation"
    BY <1>6, CleanIs
  <2>3. store'["cont"] = IF role = "cont" THEN DeleteSessionPin(store["cont"], q.strategy)
                         ELSE store["cont"]
    BY <1>1, <1>4, <2>2, PutIs
  <2>4. CASE role # "cont"
    <3>1. store'["cont"] = store["cont"] /\ Carries(n, q) /\ n.pc \in ClearPCs
      BY <2>1, <2>2, <2>3, <2>4
    <3>2. ClearOf(req[r])'
      BY <1>1, <2>1, <3>1 DEF ClearOf, LiveCont, Carries, ClearPCs, History
    <3>. QED BY <1>2, <3>2
  <2>5. CASE role = "cont"
    <3>1. n = Idle /\ store'["cont"] = DeleteSessionPin(store["cont"], q.strategy)
      BY <2>1, <2>2, <2>3, <2>5
    <3>2. ~LiveCont'
      BY <1>1, <2>1, <3>1
         DEF ClearOf, LiveCont, DeleteSessionPin, Consumable, Addressed, StrategyMatches
    <3>3. ClearOf(req[r])'
      BY <1>3, <3>1, <3>2 DEF ClearOf
    <3>. QED BY <1>2, <3>3
  <2>. QED BY <2>4, <2>5
<1>7. CASE loadPin(r) \/ loadHMMHistory(r)
  <2>1. /\ q.pc \in {"load", "history"} /\ n.pc \in {"grant", "history", "consume", "route"}
        /\ n.strategy = q.strategy /\ n.stale = q.stale /\ UNCHANGED <<store, beta, History>>
    BY <1>7, LoadIs, LoadHistoryIs
  <2>2. n.stale = FALSE /\ q.pc \notin ClearPCs /\ n.pc \notin ClearPCs
        /\ q.pc \notin {"idle", "invalidate"}
    BY <1>1, <2>1 DEF ClearOf, ClearPCs
  <2>. QED BY <1>1, <1>2, <2>1, <2>2, ClearFrame DEF History
<1>8. CASE consumePostCommandContinuation(r)
  <2>. DEFINE hit == Consumable(store["cont"], q.strategy)
  <2>1. /\ q.pc = "consume" /\ n.pc = "route" /\ n.strategy = q.strategy /\ UNCHANGED beta
        /\ n.stale = (hit /\ contStale) /\ contStale' = (contStale /\ ~hit)
        /\ Put("cont", DeleteSessionPin(store["cont"], q.strategy))
    BY <1>8, ConsumeIs
  <2>2. store'["cont"] = DeleteSessionPin(store["cont"], q.strategy)
    BY <1>1, <1>4, <2>1, PutIs
  <2>3. ~(hit /\ contStale)
    BY <1>1, <2>1 DEF ClearOf, LiveCont, Consumable, Addressed
  <2>4. ClearOf(req[r])'
    BY <1>1, <2>1, <2>2, <2>3 DEF ClearOf, LiveCont, DeleteSessionPin, ClearPCs, Strategy
  <2>. QED BY <1>2, <2>4
<1>9. CASE grantPostCommandContinuation(r)
  <2>1. q.pc = "grant" /\ n = Idle /\ UNCHANGED beta
    BY <1>9, GrantIs
  <2>2. CASE UNCHANGED <<store, contStale, granted>>
    BY <1>1, <1>2, <1>3, <2>1, <2>2, ClearFrame DEF ClearPCs
  <2>3. CASE /\ Put("cont", UpsertSessionPin(store["cont"], PinOf(q.pin, q.strategy)))
             /\ contStale' = q.stale
    <3>1. PinOf(q.pin, q.strategy).strategy = q.strategy
      BY DEF PinOf
    <3>2. store'["cont"] = UpsertSessionPin(store["cont"], PinOf(q.pin, q.strategy))
      BY <1>1, <1>4, <2>3, PutIs
    <3>3. store'["cont"].strategy = q.strategy
      BY <3>1, <3>2 DEF UpsertSessionPin, Inserted, Replaced, ZeroPin
    <3>4. q.strategy = Strategy /\ contStale' = FALSE
      BY <1>1, <2>1, <2>3 DEF ClearOf, ClearPCs
    <3>5. ClearOf(req[r])'
      BY <1>3, <2>1, <3>3, <3>4 DEF ClearOf, LiveCont, ClearPCs, Strategy
    <3>. QED BY <1>2, <3>5
  <2>. QED BY <1>9, <2>2, <2>3, GrantIs
<1>10. CASE \/ ServeContinuation(r) \/ ServePinned(r) \/ RouteFresh(r) \/ Reanchor(r)
            \/ DeadlineFallback(r) \/ ServeHMM(r)
  <2>1. Deciding(r)
    BY <1>10, DecideIs
  <2>2. store'["cont"] = store["cont"]
    BY <1>1, <1>4, <2>1, PutIs DEF Deciding, UpsertPin
  <2>3. /\ q.pc = "route" /\ n.pc = "dispatch" /\ n.stale = FALSE /\ n.strategy = q.strategy
        /\ UNCHANGED <<beta, contStale>>
    BY <2>1 DEF Deciding, Knows
  <2>. QED BY <1>1, <1>2, <2>2, <2>3, ClearFrame DEF ClearPCs
<1>11. CASE RouteFailed(r)
  <2>1. n = Idle /\ q.pc = "route" /\ UNCHANGED <<store, beta, History>>
    BY <1>11, BecomeIs DEF RouteFailed, Done, IInv
  <2>. QED BY <1>1, <1>2, <1>3, <2>1, ClearFrame DEF ClearPCs, History
<1>12. CASE DispatchTurn(r)
  <2>1. /\ q.pc = "dispatch" /\ UNCHANGED <<store, beta, History>>
        /\ n = Idle \/ (n.pc \in PostPCs /\ n.strategy = q.strategy /\ n.stale = q.stale)
    BY <1>1, <1>12, DispatchIs
  <2>2. n.stale = FALSE
    BY <1>1, <1>3, <2>1 DEF ClearOf
  <2>. QED BY <1>1, <1>2, <1>3, <2>1, <2>2, ClearFrame DEF ClearPCs, PostPCs, History
<1>13. CASE markExpired(r)
  <2>1. /\ q.pc = "mark" /\ UNCHANGED beta /\ Carries(n, q) /\ n.pc = "invalidate"
        /\ n.expire = q.expire /\ q.expire.role \in {PinRole, HistRole}
        /\ Put(q.expire.role, UpsertSessionPin(store[q.expire.role], Marker(q.strategy)))
        /\ contStale' = (contStale \/ (q.expire.role = PinRole /\ store["cont"] # NoRow))
    BY <1>13, MarkIs
  <2>2. store'["cont"] = store["cont"]
    BY <1>1, <1>4, <2>1, PutIs
  <2>3. ClearOf(req[r])'
    BY <1>1, <2>1, <2>2 DEF ClearOf, LiveCont, Carries, ClearPCs, Strategy
  <2>. QED BY <1>2, <2>3
<1>14. CASE invalidatePostCommandContinuation(r)
  <2>1. Posting(r)
    BY <1>1, <1>14, PostIs
  <2>2. n.stale = FALSE /\ UNCHANGED beta
        /\ (n.pc = "idle" \/ (n.pc \in PostPCs /\ n.strategy = q.strategy))
    BY <1>1, <1>3, <2>1 DEF Posting, Carries, ClearOf
  <2>3. q.strategy = Strategy /\ q.pc = "invalidate"
    BY <1>1, <1>14, InvalidateIs DEF ClearOf, ClearPCs
  <2>4. CASE commandContinuationRole(q.expire.role) = "cont"
    <3>1. store'["cont"] = DeleteSessionPin(store["cont"], q.strategy)
      BY <1>14, <2>4, InvalidateIs
    <3>2. LiveCont => Consumable(store["cont"], q.strategy)
      BY <1>1, <2>3 DEF ClearOf, LiveCont, Consumable, Addressed, StrategyMatches, ClearPCs
    <3>3. ~LiveCont'
      BY <3>1, <3>2 DEF LiveCont, DeleteSessionPin, Consumable, Addressed
    <3>4. ClearOf(req[r])'
      BY <2>2, <2>3, <3>3 DEF ClearOf, Strategy, ClearPCs, PostPCs
    <3>. QED BY <1>2, <3>4
  <2>5. CASE commandContinuationRole(q.expire.role) # "cont"
    <3>1. store'["cont"] = store["cont"] /\ contStale' = contStale
      BY <1>14, <2>5, InvalidateIs DEF IInv, CountInv
    <3>2. ~(contStale /\ LiveCont)
      BY <1>1, <2>5 DEF ClearOf, commandContinuationRole
    <3>3. ClearOf(req[r])'
      BY <1>1, <2>2, <2>3, <3>1, <3>2 DEF ClearOf, LiveCont, Strategy, ClearPCs, PostPCs
    <3>. QED BY <1>2, <3>3
  <2>. QED BY <2>4, <2>5
<1>15. CASE \/ recordTurnUsage(r) \/ readPriorHistory(r) \/ upsertHMMHistory(r)
            \/ updateHistoryUsage(r)
            \/ markHistoryExpired(r) \/ evictPinAfterDegenerateResponse(r)
            \/ maybeEvictPinAfterUpstreamErr(r) \/ maybeExpireDeadArmPin(r)
            \/ maybeDisableProviderAfterOverload(r) \/ disableProvider(r)
            \/ readRefusalFallback(r) \/ repinOnRefusal(r)
  <2>1. Posting(r)
    BY <1>1, <1>15, PostIs
  <2>2. store'["cont"] = store["cont"] /\ contStale' = contStale /\ q.pc # "invalidate"
    BY <1>15, PostStore
  <2>3. /\ q.pc \in PostPCs /\ UNCHANGED beta /\ n.stale = FALSE
        /\ n.pc = "idle" \/ (n.pc \in PostPCs /\ n.strategy = q.strategy)
    BY <1>1, <1>3, <2>1 DEF Posting, Carries, ClearOf
  <2>4. q.pc \notin ClearPCs /\ n.pc \notin ClearPCs /\ q.pc # "idle"
    BY <2>3 DEF ClearPCs, PostPCs
  <2>. QED BY <1>1, <1>2, <2>2, <2>3, <2>4, ClearFrame
<1>. QED BY <1>5, <1>6, <1>7, <1>8, <1>9, <1>10, <1>11, <1>12, <1>13, <1>14, <1>15, Zenon
         DEF Step

\* When the turns of a session never overlap, a continuation that copies a
\* cleared pin is never served: the turn that clears the pin deletes the copy
\* before the next turn can take it.
THEOREM ClearsAreFinal ==
  ASSUME \A r, s \in Requests : r = s
  PROVE  Spec => ClearNeverUndone
<1>1. Init => ClearInv
  <2>. SUFFICES ASSUME Init PROVE ClearInv
    OBVIOUS
  <2>1. store["cont"] = NoRow
    BY DEF Init, Roles, PinRole
  <2>. QED BY <2>1 DEF Init, ClearInv, ClearOf, LiveCont, Idle
<1>2. IInv /\ ChainInv /\ ClearInv /\ [Next]_vars => ClearInv'
  <2>. SUFFICES ASSUME IInv, ChainInv, ClearInv, [Next]_vars PROVE ClearInv'
    OBVIOUS
  <2>1. ASSUME NEW r \in Requests, Arrive(r) \/ Step(r) PROVE ClearInv'
    BY <2>1, ClearStep
  <2>2. ASSUME UNCHANGED <<req, beta>>, contStale' => contStale,
               \/ store'["cont"] = store["cont"]
               \/ ~LiveCont'
        PROVE  ClearInv'
    BY <2>2 DEF ClearInv, ClearOf, LiveCont, Strategy
  <2>3. ASSUME NEW role \in Roles, LapseRow(role) PROVE ClearInv'
    <3>. DEFINE row == [store[role] EXCEPT !.live = FALSE]
    <3>1. Put(role, row) /\ store[role] # NoRow /\ UNCHANGED <<req, beta, contStale>>
      BY <2>3, Zenon DEF LapseRow, History
    <3>2. GoodRow(store[role])
      BY <3>1 DEF IInv, StoreInv, GoodAt
    <3>3. row.live = FALSE
      BY <3>2, LapsedGood, Zenon
    <3>. HIDE DEF row
    <3>4. store'["cont"] = IF role = "cont" THEN row ELSE store["cont"]
      BY <3>1, PutIs DEF IInv, Roles
    <3>5. store'["cont"] = store["cont"] \/ ~LiveCont'
      BY <3>3, <3>4 DEF LiveCont
    <3>. QED BY <2>2, <3>1, <3>5
  <2>4. ASSUME NEW role \in Roles, SweepExpiredSessionPins(role) PROVE ClearInv'
    <3>1. Put(role, NoRow) /\ UNCHANGED <<req, beta>> /\ (contStale' => contStale)
      BY <2>4 DEF SweepExpiredSessionPins
    <3>2. store'["cont"] = IF role = "cont" THEN NoRow ELSE store["cont"]
      BY <3>1, PutIs DEF IInv, Roles
    <3>3. store'["cont"] = store["cont"] \/ ~LiveCont'
      BY <3>2 DEF LiveCont
    <3>. QED BY <2>2, <3>1, <3>3
  <2>5. CASE UNCHANGED vars
    BY <2>2, <2>5 DEF vars
  <2>. QED BY <2>1, <2>3, <2>4, <2>5 DEF Next
<1>3. ClearInv => \A r \in Requests :
        req[r].pc = "route" /\ redeemed' = redeemed + 1 /\ req'[r].pc = "dispatch"
            /\ req[r].contFound
        => ~req[r].stale
  BY DEF ClearInv, ClearOf
<1>. QED BY <1>1, <1>2, <1>3, ChainHolds, PTL DEF Spec, ClearNeverUndone
=============================================================================
