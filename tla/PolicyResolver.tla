--------------------------- MODULE PolicyResolver ---------------------------
(* Candidate resolution for the policy strategies: which arms a turn may be *)
(* offered, and which arm a selection names.  Pure operators over one       *)
(* request; an arm identifier is a tuple, a roster identifier a string, and *)
(* a selection pairs either with the reasoning effort its suffix carries.   *)
EXTENDS Naturals, Sequences, FiniteSets, SequencesExt, Loops

CONSTANTS
  Deployed,   \* the strategy's targets in identifier order
  Catalog,    \* catalog rows: roster id, window, provider bindings, capabilities
  Available,  \* providers registered in this deployment
  Denied,     \* providers the policy may not use
  Enumerate   \* TRUE when every binding of a model is an arm of its own

None == "none"

(* Arms that enumerate bindings presuppose that no two models share a roster *)
(* identifier (rosterIDFor: the catalog id or an upstream name of its own).  *)
ASSUME ResolverAssumption ==
  /\ Deployed \in Seq(STRING) /\ Enumerate \in BOOLEAN
  /\ DOMAIN Catalog \subseteq STRING
  /\ \A m \in DOMAIN Catalog : Catalog[m].bindings \in Seq(STRING)
  /\ Enumerate => \A m, n \in DOMAIN Catalog :
       Catalog[m].roster = Catalog[n].roster /\ Catalog[m].roster # None => m = n

(* A nil provider set is <<>>: everything the deployment registered. *)
ProviderSet(req) == IF req.enabled = <<>> THEN Available ELSE req.enabled[1]

EnumerateBindings(m, provs) == Keep(Catalog[m].bindings, provs)

(* The filters that can empty the pool, in the order the resolver applies them. *)
HardEligible(req, m) ==
  /\ req.allowed = {} \/ m \in req.allowed
  /\ m \notin req.excluded
  /\ m \in DOMAIN Catalog
  /\ Catalog[m].roster # None
  /\ req.tokens <= Catalog[m].window

ArmBindings(req, m) ==
  LET allowed == EnumerateBindings(m, ProviderSet(req) \ Denied)
  IN  IF Enumerate \/ allowed = <<>> THEN allowed ELSE <<allowed[1]>>

MakeArmID(m, p) == IF Enumerate THEN <<m, p>> ELSE <<Catalog[m].roster>>

Candidate(m, p) ==
  [arm |-> MakeArmID(m, p), roster |-> Catalog[m].roster, model |-> m, provider |-> p]

Base(req) ==
  FlattenSeq([i \in DOMAIN Deployed |->
    LET m == Deployed[i]
    IN  IF HardEligible(req, m)
        THEN [j \in DOMAIN ArmBindings(req, m) |-> Candidate(m, ArmBindings(req, m)[j])]
        ELSE <<>>])

(* A soft filter withdraws models but never the last one. *)
softFilter(base, active, drop) ==
  LET kept == Keep(base, {c \in Range(base) : c.model \notin drop})
  IN  IF active /\ drop # {} /\ kept # <<>> THEN kept ELSE base

imageLow == {m \in DOMAIN Catalog : ~Catalog[m].images}
toolLow == {m \in DOMAIN Catalog : ~Catalog[m].tools}

SoftFiltered(req) ==
  LET enabled == softFilter(Base(req), TRUE, req.auto)
      seeing  == softFilter(enabled, req.images, imageLow)
  IN  softFilter(seeing, req.tools, toolLow)

(* Two candidates under one arm identifier cannot be told apart: neither is offered. *)
Resolve(req) ==
  LET base == SoftFiltered(req)
      Same(c) == {i \in DOMAIN base : base[i].arm = c.arm}
  IN  Keep(base, {c \in Range(base) : Cardinality(Same(c)) = 1})

ByArmID(cands, arm) == {c \in Range(cands) : c.arm = arm}

(* A roster identifier several candidates share names none of them. *)
ByRosterID(cands, r) ==
  LET named == {c \in Range(cands) : c.roster = r}
  IN  IF Cardinality(named) = 1 THEN named ELSE {}

(* The arm identifier decides; the roster identifier is the legacy answer. *)
BindingForSelection(cands, arm, roster) ==
  LET byArm == IF arm = <<>> THEN {} ELSE ByArmID(cands, arm)
  IN  IF byArm # {} THEN byArm ELSE ByRosterID(cands, roster)

(* The first candidate of a roster identifier, <<>> when there is none. *)
rosterToArm(cands, r) ==
  LET named == Keep(cands, {c \in Range(cands) : c.roster = r})
  IN  IF named = <<>> THEN <<>> ELSE named[1].arm

SchemaVersion(selects) ==
  CASE selects -> "v3" [] ~selects /\ Enumerate -> "v2" [] OTHER -> "v1"
=============================================================================
