------------------------------ MODULE PinStore ------------------------------
(***************************************************************************)
(* The router.session_pins table: one row per (session_key, role), and the *)
(* SQL statements of db/queries/session_pins.sql as operators from the row *)
(* before to the row after.  Every statement is one atomic step of the     *)
(* database; the interleaving of statements is SessionPins' business.      *)
(*                                                                         *)
(* Abstractions: the four token columns keep only whether the last turn    *)
(* hit the output cap (maxed) and last_turn_ended_at only whether it is    *)
(* set (ended); pinned_until keeps only whether it lies in the future      *)
(* (live); turn_count, first_pinned_at and last_seen_at are observability  *)
(* columns and are left out.  A policy group is named after the model of   *)
(* the decision that supplied it.                                          *)
(*                                                                         *)
(* `audit' is not a column: it records where the evidence of the row came  *)
(* from, so that properties can compare it with the row's columns.         *)
(***************************************************************************)
EXTENDS Naturals, FiniteSets

CONSTANTS
    Models,      \* catalog model ids
    Providers,   \* upstream providers
    Strategies,  \* routing strategies requests run under (router.Strategy)
    NoModel,     \* the empty model column
    NoProvider,  \* the empty provider column
    NoRow        \* no row for a (session_key, role)

Legacy == ""            \* routing_strategy of rows written before the column
Beta   == "hmm_beta"    \* router.StrategyHMMBeta

ASSUME StoreConstants ==
    /\ NoModel \notin Models
    /\ NoProvider \notin Providers
    /\ Legacy \notin Strategies

Arm == [model : Models \cup {NoModel}, provider : Providers \cup {NoProvider}]

NoArm == [model |-> NoModel, provider |-> NoProvider]

Reasons == {"", "routed", "hmm_policy", "cleared", "repin", "deadline_default"}

Audit ==
    [ evidence : SUBSET Strategies,   \* strategies whose turns wrote evidence
      served   : SUBSET Models,       \* models recorded by usage writebacks
      anchors  : SUBSET (Models \cup {NoModel}),  \* pins charged in upErr
      overload : SUBSET Providers ]   \* providers charged in ovErr

NoAudit == [evidence |-> {}, served |-> {}, anchors |-> {}, overload |-> {}]

Row ==
    [ model      : Models \cup {NoModel},
      provider   : Providers \cup {NoProvider},
      pair       : Arm,
      reason     : Reasons,
      strategy   : Strategies \cup {Legacy},
      group      : Models \cup {NoModel},
      live       : BOOLEAN,
      upErr      : Nat,
      ovErr      : Nat,
      lastServed : Models \cup {NoModel},
      maxed      : BOOLEAN,
      ended      : BOOLEAN,
      ever       : BOOLEAN,
      disabled   : SUBSET Providers,
      audit      : Audit ]

ASSUME NoRowIsNoRow == NoRow \notin Row

\* What the Go code passes to Upsert: the columns the INSERT names.
Pin ==
    [ model : Models \cup {NoModel}, provider : Providers \cup {NoProvider},
      pair : Arm, reason : Reasons, strategy : Strategies,
      group : Models \cup {NoModel}, live : BOOLEAN ]

\* sessionpin.Usage; `prior' and `ever' are the caller's own switch evidence.
Usage ==
    [ strategy : Strategies, model : Models, provider : Providers,
      maxed : BOOLEAN, prior : Models \cup {NoModel}, ever : BOOLEAN ]

\* sessionpin.Pin{}: what a miss returns to the Go code.
ZeroPin ==
    [ model |-> NoModel, provider |-> NoProvider, pair |-> NoArm, reason |-> "",
      strategy |-> Legacy, group |-> NoModel, live |-> FALSE, upErr |-> 0,
      ovErr |-> 0, lastServed |-> NoModel, maxed |-> FALSE, ended |-> FALSE,
      ever |-> FALSE, disabled |-> {}, audit |-> NoAudit ]

\* The WHERE clause every statement but Get, Upsert and Sweep carries.
StrategyMatches(row, strategy) ==
    \/ row.strategy = strategy
    \/ row.strategy = Legacy /\ strategy # Beta

Addressed(row, strategy) == row # NoRow /\ StrategyMatches(row, strategy)

-----------------------------------------------------------------------------
(* DeleteSessionPin (Consume): deletes and returns a live row of the        *)
(* expected strategy; anything else stays.                                  *)

Consumable(row, strategy) == Addressed(row, strategy) /\ row.live

\* Mutant: the row is returned without being deleted.
DeleteSessionPinMutant(row, strategy) == row

DeleteSessionPin(row, strategy) ==
    IF Consumable(row, strategy) THEN NoRow ELSE row

-----------------------------------------------------------------------------
(* UpsertSessionPin.                                                        *)

Inserted(pin) ==
    [ ZeroPin EXCEPT !.model = pin.model, !.provider = pin.provider,
                     !.pair = pin.pair, !.reason = pin.reason,
                     !.strategy = pin.strategy, !.group = pin.group,
                     !.live = pin.live ]

\* Mutant: evidence is kept across a strategy switch.
SameStrategyMutant(row, pin) == TRUE

\* Evidence columns are kept under the same strategy only.
SameStrategy(row, pin) == row.strategy = pin.strategy

\* The columns that describe the pinned model are kept on a refresh of it.
SameArm(row, pin) == row.model = pin.model /\ row.strategy = pin.strategy

\* Mutant: a blank runner-up never clears the stored one.
KeptPairMutant(row, pin) == IF pin.pair.model # NoModel THEN pin.pair ELSE row.pair

KeptPair(row, pin) ==
    CASE pin.pair.model # NoModel -> pin.pair
      [] pin.pair.model = NoModel /\ SameArm(row, pin) -> row.pair
      [] OTHER -> NoArm

KeptGroup(row, pin) ==
    CASE pin.group # NoModel -> pin.group
      [] pin.group = NoModel /\ SameArm(row, pin) -> row.group
      [] OTHER -> NoModel

\* Strikes belong to the pinned model.
KeptStrikes(row, pin) == SameArm(row, pin)

\* Mutant: a rewrite for another model re-enables the providers.
KeptDisabledMutant(row, pin) == IF SameArm(row, pin) THEN row.disabled ELSE {}

KeptDisabled(row, pin) == IF SameStrategy(row, pin) THEN row.disabled ELSE {}

UpdatedAudit(row, pin) ==
    IF ~SameStrategy(row, pin) THEN NoAudit
    ELSE [ row.audit EXCEPT
             !.anchors  = IF KeptStrikes(row, pin) THEN @ ELSE {},
             !.overload = IF KeptStrikes(row, pin) THEN @ ELSE {} ]

Replaced(row, pin) ==
    [ model      |-> pin.model,
      provider   |-> pin.provider,
      pair       |-> KeptPair(row, pin),
      reason     |-> pin.reason,
      strategy   |-> pin.strategy,
      group      |-> KeptGroup(row, pin),
      live       |-> pin.live,
      upErr      |-> IF KeptStrikes(row, pin) THEN row.upErr ELSE 0,
      ovErr      |-> IF KeptStrikes(row, pin) THEN row.ovErr ELSE 0,
      lastServed |-> IF SameStrategy(row, pin) THEN row.lastServed ELSE NoModel,
      maxed      |-> SameStrategy(row, pin) /\ row.maxed,
      ended      |-> SameStrategy(row, pin) /\ row.ended,
      ever       |-> SameStrategy(row, pin) /\ row.ever,
      disabled   |-> KeptDisabled(row, pin),
      audit      |-> UpdatedAudit(row, pin) ]

UpsertSessionPin(row, pin) ==
    IF row = NoRow THEN Inserted(pin) ELSE Replaced(row, pin)

-----------------------------------------------------------------------------
(* The in-place mutations: each is a no-op unless the row is Addressed.     *)

\* Mutant: only what the caller knew when its turn began counts.
LatchedMutant(row, usage) ==
    row.ever \/ usage.ever \/ usage.prior \notin {NoModel, usage.model}

\* has_ever_switched: the caller's evidence and the row's own.
Latched(row, usage) ==
    \/ row.ever
    \/ usage.ever
    \/ row.lastServed \notin {NoModel, usage.model}
    \/ usage.prior \notin {NoModel, usage.model}

WithUsage(audit, usage) ==
    [ audit EXCEPT !.evidence = @ \cup {usage.strategy}, !.served = @ \cup {usage.model} ]

UpdateSessionPinUsage(row, usage) ==
    IF ~Addressed(row, usage.strategy) THEN row
    ELSE [ row EXCEPT
             !.maxed      = usage.maxed,
             !.ended      = TRUE,
             !.provider   = usage.provider,
             !.ever       = Latched(row, usage),
             !.lastServed = usage.model,
             !.audit      = WithUsage(row.audit, usage) ]

\* `anchor' is the pinned model the failed turn ran against.
WithStrike(audit, strategy, anchor) ==
    [ audit EXCEPT !.evidence = @ \cup {strategy}, !.anchors = @ \cup {anchor} ]

IncrementSessionPinUpstreamErrors(row, strategy, anchor) ==
    IF ~Addressed(row, strategy) THEN row
    ELSE [ row EXCEPT !.upErr = @ + 1,
                      !.audit = WithStrike(row.audit, strategy, anchor) ]

WithoutStrikes(audit) == [audit EXCEPT !.anchors = {}]

ResetSessionPinUpstreamErrors(row, strategy) ==
    IF ~(Addressed(row, strategy) /\ row.upErr > 0) THEN row
    ELSE [row EXCEPT !.upErr = 0, !.audit = WithoutStrikes(row.audit)]

\* `provider' is the provider whose 529 ended the turn.
WithOverload(audit, strategy, provider) ==
    [ audit EXCEPT !.evidence = @ \cup {strategy}, !.overload = @ \cup {provider} ]

IncrementSessionPinOverloadErrors(row, strategy, provider) ==
    IF ~Addressed(row, strategy) THEN row
    ELSE [ row EXCEPT !.ovErr = @ + 1,
                      !.audit = WithOverload(row.audit, strategy, provider) ]

WithoutOverloads(audit) == [audit EXCEPT !.overload = {}]

ResetSessionPinOverloadErrors(row, strategy) ==
    IF ~(Addressed(row, strategy) /\ row.ovErr > 0) THEN row
    ELSE [row EXCEPT !.ovErr = 0, !.audit = WithoutOverloads(row.audit)]

WithDisable(audit, strategy) ==
    [ audit EXCEPT !.evidence = @ \cup {strategy}, !.overload = {} ]

DisableSessionPinProvider(row, strategy, provider) ==
    IF ~Addressed(row, strategy) THEN row
    ELSE [ row EXCEPT !.disabled = @ \cup {provider}, !.ovErr = 0,
                      !.audit = WithDisable(row.audit, strategy) ]

-----------------------------------------------------------------------------
(* What makes a row well formed, whatever statements have touched it.       *)

\* The evidence of a row comes from turns of the row's own strategy only.
EvidenceIsolated(row) ==
    row.audit.evidence \subseteq
        (IF row.strategy = Legacy THEN Strategies \ {Beta} ELSE {row.strategy})

\* The runner-up and the policy group belong to the model that is pinned.
CompanionsOf(row) ==
    /\ row.pair.model # NoModel => row.pair.model # row.model
    /\ row.group \in {NoModel, row.model}

\* The latch is set once usage of two models has been recorded on the row.
LatchOf(row) ==
    /\ row.audit.served = {} <=> row.lastServed = NoModel
    /\ row.lastServed # NoModel => row.lastServed \in row.audit.served
    /\ ~row.ever => row.audit.served \subseteq {row.lastServed}

GoodRow(row) ==
    row \in Row /\ EvidenceIsolated(row) /\ CompanionsOf(row) /\ LatchOf(row)

GoodPin(pin) == pin \in Pin /\ CompanionsOf(pin)
=============================================================================
