---------------------------- MODULE PolicyRouter ----------------------------
(* From the sidecar's answer to the served arm: the router's own selection, *)
(* the per-key cluster lists and forced clusters, and the checks that       *)
(* refuse an answer.  An outcome of Choose is an error or a decision.       *)
EXTENDS PolicyResolver

CONSTANTS Roster   \* cluster label -> its arms in order, each [base, effort]

Fail(why) == [ok |-> FALSE, why |-> why, deadline |-> FALSE]

(* An arm as rosters and answers list it: a roster identifier and an effort. *)
Bare(r) == [base |-> r, effort |-> None]

(* The arms of one ranked group.  A per-key list replaces them and may add  *)
(* models the group lacks, but only candidates of this turn.                *)
effectiveArms(group, override, cands) ==
  IF override = <<>> THEN group.arms
  ELSE LET named == Keep(override[1], {c.model : c \in Range(cands)})
       IN  [i \in DOMAIN named |-> Bare((CHOOSE c \in Range(cands) : c.model = named[i]).roster)]

OverrideOf(req, label) ==
  IF label \in DOMAIN req.overrides THEN <<req.overrides[label]>> ELSE <<>>

(* The first ranked group with an arm left; none leaves the sidecar's choice. *)
ApplyClusterArmOverrides(req, fallback, cands) ==
  LET Arms(g) == effectiveArms(g, OverrideOf(req, g.label), cands)
      open == SelectSeq(fallback, LAMBDA g : Arms(g) # <<>>)
  IN  IF open = <<>> THEN [applied |-> FALSE]
      ELSE [applied |-> TRUE, arm |-> Arms(open[1])[1],
            constrained |-> open[1].label \in DOMAIN req.overrides]

(* A forced cluster must exist and hold an arm: there is no falling open. *)
ApplyClusterArmOverridesRequireMatch(req, fallback, cands) ==
  LET named == SelectSeq(fallback, LAMBDA g : g.label = req.force)
      arms == IF named = <<>> THEN <<>>
              ELSE effectiveArms(named[1], OverrideOf(req, req.force), cands)
  IN  IF arms = <<>> THEN [applied |-> FALSE]
      ELSE [applied |-> TRUE, arm |-> arms[1], constrained |-> TRUE]

(* The roster's order within each ranked group, limited to the candidates   *)
(* and to the arms the sidecar left; an empty list limits nothing.          *)
SelectGroups(fallback, cands) ==
  LET Open(g) == SelectSeq(IF g.label \in DOMAIN Roster THEN Roster[g.label] ELSE <<>>,
                   LAMBDA a : /\ \E c \in Range(cands) : c.roster = a.base
                              /\ g.arms = <<>> \/ \E b \in Range(g.arms) : b.base = a.base)
      open == SelectSeq(fallback, LAMBDA g : Open(g) # <<>>)
  IN  IF open = <<>> THEN <<>> ELSE <<Open(open[1])[1]>>

(* The index of arms is keyed by bare identifiers: one with an effort misses it. *)
ArmOf(cands, a) == IF a.effort = None THEN rosterToArm(cands, a.base) ELSE <<>>

(* What the router goes by before the cluster lists: its own pick, or the sidecar's. *)
Selection(res, cands, selects) ==
  IF ~selects
  THEN [ok |-> TRUE, arm |-> res.arm, roster |-> res.model, effort |-> res.effort, own |-> FALSE]
  ELSE LET pick == SelectGroups(res.fallback, cands)
       IN  IF pick = <<>> THEN Fail("arm_selection")
           ELSE [ok |-> TRUE, roster |-> pick[1].base, effort |-> pick[1].effort, own |-> TRUE,
                 arm |-> ArmOf(cands, pick[1])]

(* The selection after the forced cluster or the per-key lists. *)
Overridden(req, res, cands, selects, sel) ==
  LET out == IF req.force # None
             THEN ApplyClusterArmOverridesRequireMatch(req, res.fallback, cands)
             ELSE IF DOMAIN req.overrides = {} THEN [applied |-> FALSE]
             ELSE ApplyClusterArmOverrides(req, res.fallback, cands)
      changed == out.arm # [base |-> sel.roster, effort |-> sel.effort]
  IN  CASE req.force # None /\ ~out.applied -> Fail("forced_cluster")
        [] out.applied /\ (out.constrained \/ ~selects) ->
             [sel EXCEPT !.arm = ArmOf(cands, out.arm), !.roster = out.arm.base,
                         !.effort = out.arm.effort, !.own = @ \/ changed]
        [] OTHER -> sel

(* The sidecar's display marker names its own pick. *)
ServedMarkerMutant(res, own) == res.marker

ServedMarker(res, own) == IF own THEN None ELSE res.marker

(* The decision of one answered query: an unknown arm, or a provider the    *)
(* router did not bind, is refused unless the router itself chose the arm.  *)
Choose(req, res, cands, selects) ==
  LET first == Selection(res, cands, selects)
      sel == IF first.ok THEN Overridden(req, res, cands, selects, first) ELSE first
      bound == IF sel.ok THEN BindingForSelection(cands, sel.arm, sel.roster) ELSE {}
  IN  IF selects /\ res.schema # "v3" THEN Fail("unavailable")
      ELSE IF ~sel.ok THEN sel
      ELSE IF bound = {} THEN Fail("unavailable")
      ELSE LET b == CHOOSE c \in bound : TRUE
           IN  IF res.provider # None /\ ~sel.own /\ res.provider # b.provider
               THEN Fail("unavailable")
               ELSE [ok |-> TRUE, model |-> b.model, provider |-> b.provider, arm |-> b.arm,
                     effort |-> sel.effort, marker |-> ServedMarker(res, sel.own),
                     own |-> sel.own]

(* A preview is returned only if it is well formed: classes ranked by        *)
(* probability and then by class order, the chosen group's arms repeated,   *)
(* no arm twice and none that was not offered.  "sound": artifact identity, *)
(* posterior and class probabilities are present and in range.              *)
validatePreviewResult(res, schema) ==
  LET labels == {g.label : g \in Range(res.fallback)}
      Rank(l) == CHOOSE i \in DOMAIN res.order : res.order[i] = l
      chosen == SelectSeq(res.fallback, LAMBDA g : g.label = res.group)
  IN  /\ res.schema = schema
      /\ res.sound
      /\ res.order # <<>> /\ Cardinality(Range(res.order)) = Len(res.order)
      /\ Len(res.fallback) = Len(res.order) /\ labels = Range(res.order)
      /\ \A i \in 1..Len(res.fallback) - 1 :
           LET a == res.fallback[i] b == res.fallback[i + 1]
           IN  a.prob > b.prob \/ (a.prob = b.prob /\ Rank(a.label) < Rank(b.label))
      /\ res.arms = IF chosen = <<>> THEN <<>> ELSE chosen[1].arms

PreviewAccepted(res, cands, schema) ==
  /\ validatePreviewResult(res, schema)
  /\ Cardinality(Range(res.arms)) = Len(res.arms)
  /\ \A a \in Range(res.arms) :
       /\ a.effort = None
       /\ IF schema = "v2" THEN ByArmID(cands, <<a.base>>) # {} ELSE ByRosterID(cands, a.base) # {}
  /\ (res.arms # <<>>) = (res.group # None)
=============================================================================
