--------------------------- MODULE StreamLifecycle ---------------------------
(***************************************************************************)
(* The lifecycle record every stream translator embeds, and the events of  *)
(* the three wire protocols the translators convert between.               *)
(*                                                                         *)
(* A translator is a record; a handler maps it to the record after the     *)
(* event, with the events written to the inner writer appended to out.     *)
(* Once err is set nothing more is written: the Go handler has returned.   *)
(***************************************************************************)
EXTENDS Integers, Sequences, SequencesExt, FiniteSets, TLC

\* k: the kind; i: a block, tool or output index; x: the class of the
\* content; r: a stop or finish reason carried by the same event.
Event(k, i, x, r) == [k |-> k, i |-> i, x |-> x, r |-> r]

Simple(k) == Event(k, 0, "", "")

\* Anthropic events.
BlockStart(i, x) == Event("content_block_start", i, x, "")
BlockDelta(i, x) == Event("content_block_delta", i, x, "")
BlockStop(i)     == Event("content_block_stop", i, "", "")
MessageDelta(r)  == Event("message_delta", 0, "", r)

\* Chat-completions chunks.  A tool chunk with content "head" carries the
\* function's name, one with "args" only arguments.
Text(x, r)    == Event("text", 0, x, r)
Tool(i, x, r) == Event("tool", i, x, r)
Finish(r)     == Event("finish", 0, "", r)

\* Responses events: x is the item type.
ItemAdded(i, x) == Event("output_item.added", i, x, "")
ItemDelta(i, x) == Event("delta", i, x, "")
ItemDone(i, x)  == Event("output_item.done", i, x, "")
Completed(r)    == Event("completed", 0, "", r)

NewStream ==
    [life |-> "idle", output |-> FALSE, last |-> -1, out |-> <<>>, err |-> "none"]

Ok(s) == s.err = "none"

Raise(s, e) == IF Ok(s) THEN [s EXCEPT !.err = e] ELSE s

Emit(s, ev) == IF Ok(s) THEN [s EXCEPT !.out = Append(@, ev)] ELSE s

EmitAll(s, evs) == IF Ok(s) THEN [s EXCEPT !.out = @ \o evs] ELSE s

\* From "started" to a terminal state, or ErrStreamOrder.
Move(s, from, to) ==
    IF s.life = from THEN (IF Ok(s) THEN [s EXCEPT !.life = to] ELSE s)
    ELSE Raise(s, "order")

Start(s)    == Move(s, "idle", "started")
Terminal(s) == Move(s, "started", "terminal")
Fail(s)     == Move(s, "started", "failed")

Output(s, i) ==
    IF s.life # "started" \/ i < s.last THEN Raise(s, "order")
    ELSE IF Ok(s) THEN [s EXCEPT !.output = TRUE, !.last = i] ELSE s

EOF(s) ==
    CASE s.life = "idle"    -> "empty"
      [] s.life = "started" -> "incomplete"
      [] OTHER              -> "none"
=============================================================================
