----------------------------- MODULE ClientStream -----------------------------
(***************************************************************************)
(* What a streaming client is promised, whatever protocol it speaks: a     *)
(* stream that begins once, opens an item once and under an index of its   *)
(* own, touches only open ones, announces the end of the turn once, and    *)
(* then ends; or a refusal before anything was sent; or a failure that is  *)
(* announced.                                                              *)
(*                                                                         *)
(* An event the client receives is seen = [k, i, n]: its kind, the item it *)
(* concerns, and a bit that changes with every event, so that a repeated   *)
(* event is a step.  Kinds: "begin", "open", "tool" (opens a tool item),   *)
(* "delta", "close", "stop" (the turn's outcome), "end", "error", "idle"   *)
(* (a comment or ping, which has no meaning).                              *)
(***************************************************************************)
EXTENDS Integers, FiniteSets

CONSTANTS
    Protocol,   \* "anthropic", "chat" or "responses"
    MaxItem     \* the largest item index considered

Begins     == Protocol # "chat"       \* the stream has a first event of its own
Closes     == Protocol # "chat"       \* items are closed one by one
Announces  == Protocol # "responses"  \* the outcome is announced before the end
Reconciled == Protocol = "anthropic"  \* the outcome agrees with the items sent
Numbered   == Protocol # "responses"  \* items are numbered in the order they open
Tail       == Protocol = "chat"       \* a failure may be followed by the end

VARIABLES
    phase,      \* "none", "open", "stopping", "ended", "failed", "refused"
    open,       \* the items now open
    used,       \* the items opened so far
    tool,       \* a tool item was opened
    outcome,    \* "" until announced; "tool" or "answer"
    seen        \* the last event

vars == <<phase, open, used, tool, outcome, seen>>

Sees(k, i) == seen' = [k |-> k, i |-> i, n |-> 1 - seen.n]

Init ==
    /\ phase = "none" /\ open = {} /\ used = {} /\ tool = FALSE /\ outcome = ""
    /\ seen = [k |-> "idle", i |-> 0, n |-> 0]

\* A protocol without a first event of its own begins with its first content.
Live == phase = "open" \/ (~Begins /\ phase = "none")

Begin ==
    /\ phase = "none" /\ phase' = "open" /\ Sees("begin", 0)
    /\ UNCHANGED <<open, used, tool, outcome>>

Open(k) ==
    /\ Live /\ phase' = "open"
    /\ \E i \in 0 .. MaxItem :
        /\ i \notin used /\ (Numbered => i = Cardinality(used))
        /\ open' = open \union {i} /\ used' = used \union {i} /\ Sees(k, i)
    /\ tool' = (tool \/ k = "tool")
    /\ UNCHANGED outcome

Delta ==
    /\ Live /\ phase' = "open"
    /\ \E i \in open \union (IF Closes THEN {} ELSE {-1}) : Sees("delta", i)
    /\ UNCHANGED <<open, used, tool, outcome>>

Close ==
    /\ phase = "open"
    /\ \E i \in open : open' = open \ {i} /\ Sees("close", i)
    /\ UNCHANGED <<phase, used, tool, outcome>>

\* Every item is closed, and the client is told to run tools iff it got some.
Stop ==
    /\ Announces /\ Live /\ phase' = "stopping"
    /\ Closes => open = {}
    /\ outcome' \in {"tool", "answer"}
    /\ Reconciled => (outcome' = "tool" <=> tool)
    /\ Sees("stop", 0)
    /\ UNCHANGED <<open, used, tool>>

End ==
    /\ \/ phase = "stopping"
       \/ ~Announces /\ phase = "open"
       \/ Tail /\ phase = "failed"
    /\ Closes => open = {}
    /\ phase' = "ended" /\ Sees("end", 0)
    /\ UNCHANGED <<open, used, tool, outcome>>

Error ==
    /\ phase \in {"none", "open", "stopping"} /\ phase' = "failed" /\ Sees("error", 0)
    /\ UNCHANGED <<open, used, tool, outcome>>

Idle == Sees("idle", 0) /\ UNCHANGED <<phase, open, used, tool, outcome>>

Refuse == phase = "none" /\ phase' = "refused" /\ UNCHANGED <<open, used, tool, outcome, seen>>

Next == Begin \/ Open("open") \/ Open("tool") \/ Delta \/ Close \/ Stop \/ End \/ Error \/ Idle \/ Refuse

Spec == Init /\ [][Next]_vars
=============================================================================
