------------------------------ MODULE MCPolicy ------------------------------
(* Five targets: one without images, one without tools, one the strategy   *)
(* cannot map and one the catalog does not know; three clusters.           *)
EXTENDS Policy

MCDeployed == <<"m1", "m2", "m3", "m4", "mx">>
Row(r, w, b, i, t) ==
  [roster |-> r, window |-> w, bindings |-> b, images |-> i, tools |-> t,
   tier |-> IF r \in {"r1", "r3"} THEN "high" ELSE "low"]
MCCatalog ==
  [m \in {"m1", "m2", "m3", "m4"} |->
    CASE m = "m1" -> Row("r1", 2, <<"p1", "p2">>, TRUE, TRUE)
      [] m = "m2" -> Row("r2", 1, <<"p2">>, FALSE, TRUE)
      [] m = "m3" -> Row("r3", 2, <<"p1">>, TRUE, FALSE)
      [] m = "m4" -> Row(None, 2, <<"p1">>, TRUE, TRUE)]
MCAvailable == {"p1", "p2"}
MCDenied == {"p3"}

Arm(r, e) == [base |-> r, effort |-> e]
MCRoster == [g \in {"easy", "hard"} |->
  IF g = "easy" THEN <<Arm("r2", "max"), Arm("r3", None)>> ELSE <<Arm("r1", "max"), Arm("r2", None)>>]

Says(r, t, x) == [role |-> r, text |-> t, result |-> x]
Short == <<Says("user", 1, 0), Says("assistant", 1, 0), Says("user", 0, 2)>>
Long == <<Says("user", 2, 0), Says("assistant", 2, 0), Says(None, 1, 0), Says("user", 1, 1)>>
Wordy == <<Says("user", 3, 0)>>
NoLists == [g \in {} |-> <<>>]
Plain == [allowed |-> {}, excluded |-> {}, auto |-> {}, safety |-> {}, enabled |-> <<>>, tokens |-> 1,
          images |-> FALSE, tools |-> FALSE, force |-> None, overrides |-> NoLists, train |-> TRUE, conv |-> Short]
Lists == [g \in {"easy"} |-> <<"m1", "m2">>]
TwoLists == [g \in {"easy", "hard"} |-> IF g = "easy" THEN <<"m4">> ELSE <<"m3", "m1">>]
MCRequests ==
  { Plain,
    [Plain EXCEPT !.conv = Long],
    [Plain EXCEPT !.conv = Wordy],
    [Plain EXCEPT !.train = FALSE],
    [Plain EXCEPT !.excluded = {"m1"}, !.overrides = Lists],
    [Plain EXCEPT !.allowed = {"m2", "m3"}, !.excluded = {"m1", "m4"}, !.images = TRUE],
    [Plain EXCEPT !.auto = {"m1", "m2", "m3"}],
    [Plain EXCEPT !.auto = {"m1"}, !.tools = TRUE],
    [Plain EXCEPT !.tokens = 2, !.overrides = Lists, !.force = "easy"],
    [Plain EXCEPT !.tokens = 3],
    [Plain EXCEPT !.enabled = <<{"p2"}>>, !.overrides = TwoLists],
    [Plain EXCEPT !.enabled = <<{"p3"}>>],
    [Plain EXCEPT !.force = "hard", !.images = TRUE, !.tools = TRUE],
    [Plain EXCEPT !.force = "odd", !.safety = {"m1"}] }

Group(l, p, a) == [label |-> l, prob |-> p, arms |-> a]
Ranked == <<Group("easy", 2, <<Arm("r2", None), Arm("r3", "max")>>), Group("hard", 1, <<Arm("r1", None)>>)>>
Open == <<Group("new", 1, <<Arm("r9", None)>>), Group("hard", 1, <<>>)>>
Marker(r) == CASE r = "r1" -> "m1" [] r = "r2" -> "m2" [] r = "r3" -> "m3" [] OTHER -> None
MCAnswers ==
  { [schema |-> "v1", arm |-> a, model |-> r, effort |-> e, provider |-> p, fallback |-> f, marker |-> Marker(r)] :
      a \in {<<>>}, r \in {None, "r1", "r2", "r9"}, e \in {None, "max"}, p \in {None, "p1", "p2"},
      f \in {<<>>, Ranked, Open} }
  \cup
  { [schema |-> "v1", arm |-> <<"r3">>, model |-> r, effort |-> None, provider |-> None, fallback |-> <<>>,
     marker |-> "m3"] : r \in {None, "r3"} }
  \cup
  { [schema |-> "v3", arm |-> <<>>, model |-> None, effort |-> None, provider |-> None, fallback |-> f, marker |-> None] :
      f \in {<<>>, Ranked, Open, <<Ranked[2]>>} }

Shown == [schema |-> "v1", sound |-> TRUE, order |-> <<"hard", "easy">>, fallback |-> Ranked,
          group |-> "hard", arms |-> <<Arm("r1", None)>>]
MCPreviewAnswers ==
  { Shown, [Shown EXCEPT !.schema = "v3"], [Shown EXCEPT !.sound = FALSE],
    [Shown EXCEPT !.group = "easy", !.arms = Ranked[1].arms],
    [Shown EXCEPT !.fallback = <<Ranked[2], Ranked[1]>>],
    [Shown EXCEPT !.fallback = Open, !.order = <<"new", "hard">>, !.group = "new", !.arms = Open[1].arms],
    [Shown EXCEPT !.group = None, !.arms = <<>>] }

Known == [shadow |-> TRUE, preview |-> TRUE, outcomes |-> TRUE, authoritative |-> TRUE]
Setting(s, h, d, p, df, sh, au) ==
  [selects |-> s, hmm |-> h, degrade |-> d, pin |-> p, default |-> df, shadow |-> sh, preview |-> FALSE,
   store |-> TRUE, floor |-> None, keyed |-> {"p1"}, gate |-> d, caps |-> [Known EXCEPT !.authoritative = au]]
MCSettings ==
  { Setting(TRUE, TRUE, TRUE, None, "m1", FALSE, FALSE),
    Setting(TRUE, TRUE, TRUE, "m2", None, TRUE, TRUE),
    Setting(FALSE, TRUE, TRUE, "m2", None, FALSE, TRUE),
    Setting(FALSE, FALSE, TRUE, None, "m1", FALSE, TRUE),
    Setting(FALSE, TRUE, FALSE, "m2", "m1", FALSE, FALSE) }
  \cup
  { [Setting(TRUE, TRUE, TRUE, p, "m1", FALSE, au) EXCEPT !.floor = "high", !.keyed = {"p1", "p2"}] :
      p \in {None, "m2"}, au \in BOOLEAN }
  \cup
  { [Setting(FALSE, TRUE, TRUE, None, "m1", FALSE, FALSE) EXCEPT !.store = FALSE],
    [Setting(FALSE, TRUE, TRUE, None, "m1", FALSE, FALSE) EXCEPT !.floor = "low"] }
  \cup
  { [Setting(s, TRUE, FALSE, None, None, FALSE, TRUE) EXCEPT !.preview = TRUE] : s \in BOOLEAN }
=============================================================================
