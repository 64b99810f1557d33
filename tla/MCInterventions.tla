--------------------------- MODULE MCInterventions ---------------------------
EXTENDS Interventions

Msg == [role |-> "assistant", typed |-> None, text |-> None, calls |-> <<>>, results |-> <<>>]
Prompt == [Msg EXCEPT !.role = "user", !.typed = "typed"]
Call(i, name, input) == [id |-> i, name |-> name, input |-> input, path |-> IF name = "Edit" THEN input ELSE None]
Calls(i, name, input) == [Msg EXCEPT !.calls = <<Call(i, name, input)>>, !.text = "say"]
Result(i, bad) == [Msg EXCEPT !.role = "user", !.results = <<[id |-> i, errored |-> bad]>>]

Reading == <<Prompt, Calls(1, "Read", "a"), Result(1, FALSE), Calls(2, "Read", "a"), Result(2, FALSE),
             Calls(3, "Read", "a"), Result(3, FALSE)>>
Editing == <<Prompt, Calls(1, "Edit", "a"), Result(1, TRUE), Calls(2, "Read", "b"), Result(2, TRUE)>>
Plain == <<Prompt>>

Base == [marks |-> {}, conv |-> Plain, cmd |-> None, tool |-> FALSE, header |-> None, images |-> FALSE,
         outgrown |-> {}, subset |-> Models, model |-> "cheap"]

Pin(model, reason, group, until) ==
  [model |-> model, reason |-> reason, group |-> group, turns |-> 2, first |-> 1, until |-> until]
Order(m) == [model |-> m, reason |-> "forced", last |-> None]

Usual == [loop |-> TRUE, struggle |-> TRUE, holdout |-> FALSE, policy |-> {}, explore |-> FALSE,
          compact |-> TRUE, compactor |-> "mid", resolver |-> TRUE, hard |-> "cheap", shadow |-> FALSE,
          repetition |-> FALSE, authoritative |-> FALSE, withdraws |-> FALSE, grouped |-> TRUE,
          row |-> Pin("cheap", "routed", "low", 5), ctl |-> NoControl, asks |-> {}, ends |-> Start]

Loops == [Base EXCEPT !.conv = Reading]
Struggles == [Base EXCEPT !.conv = Editing]
Forces(m) == [Base EXCEPT !.cmd = m]

McSettings ==
  { \* rescues, with a force given or withdrawn in between
    [Usual EXCEPT !.asks = {Loops, [Struggles EXCEPT !.images = TRUE], Forces("mid")}],
    [Usual EXCEPT !.withdraws = TRUE,
       !.asks = {Loops, [Struggles EXCEPT !.subset = {"cheap", "mid"}], [Loops EXCEPT !.outgrown = {"strong"}]}],
    [Usual EXCEPT !.row = Pin("cheap", "routed", "low", 2), !.holdout = TRUE, !.asks = {Loops, Struggles}],
    [Usual EXCEPT !.struggle = FALSE, !.loop = FALSE, !.authoritative = TRUE, !.shadow = TRUE, !.ends = MaxTime,
       !.asks = {Struggles}],
    \* a thread's old force, and orders from tool results
    [Usual EXCEPT !.row = Pin("cheap", "forced", None, Never), !.compact = FALSE, !.repetition = TRUE,
       !.asks = {Loops, [Base EXCEPT !.cmd = "clear", !.tool = TRUE, !.header = "cheap"],
                 [Base EXCEPT !.marks = {"compaction"}, !.conv = Reading], [Base EXCEPT !.header = "mid"]}],
    \* a session force over a rescue, on utility turns too
    [Usual EXCEPT !.row = Pin("strong", "loop", None, 5), !.ctl = Order("cheap"), !.loop = FALSE,
       !.resolver = FALSE, !.authoritative = TRUE, !.explore = TRUE,
       !.asks = {[Struggles EXCEPT !.outgrown = {"cheap"}], [Base EXCEPT !.marks = {"probe", "classifier"}],
                 [Base EXCEPT !.cmd = "unheard", !.tool = TRUE, !.conv = Reading],
                 [Base EXCEPT !.marks = {"sub_agent_dispatch"}, !.outgrown = {"cheap"}]}],
    \* nothing pinned yet; a policy that bars a model
    [Usual EXCEPT !.row = NoRow, !.policy = {"mid"}, !.loop = FALSE, !.grouped = FALSE,
       !.asks = {Loops, [Base EXCEPT !.header = "cheap"], [Base EXCEPT !.header = "mid"], Forces("clear")}] }

Symmetry == Permutations(Turns)

McLadder == << <<"low">>, <<"high">> >>
McRoster == [g \in {"low", "high"} |-> IF g = "low" THEN <<"cheap", "mid">> ELSE <<"strong">>]

(* trailingPingPongLen is the longest suffix of at least four calls that      *)
(* alternates between two different ones.                                     *)
Alternates(s, n) ==
  /\ s[Len(s)] # s[Len(s) - 1]
  /\ \A i \in Len(s) - n + 1..Len(s) : s[i] = s[IF (Len(s) - i) % 2 = 0 THEN Len(s) ELSE Len(s) - 1]
PingPong(s) == Max({0} \cup {n \in 4..Len(s) : Alternates(s, n)})
ASSUME PingPongIsAlternation == \A n \in 0..6 : \A s \in [1..n -> {"a", "b", "c"}] : trailingPingPongLen(s) = PingPong(s)
=============================================================================
