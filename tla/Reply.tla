-------------------------------- MODULE Reply --------------------------------
(***************************************************************************)
(* What the client of one request may see, however many upstream attempts  *)
(* the router makes behind it: nothing, then either the bytes of a single  *)
(* attempt or a single error envelope, and never anything after the end.   *)
(* Dispatch implements this specification.                                 *)
(***************************************************************************)
EXTENDS Naturals

VARIABLE wire   \* what has reached the client's http.ResponseWriter

\* from: attempts whose bytes were sent; upstream, router: error envelopes
\* sent; ended: the reply has its terminator.
Silent == [from |-> {}, upstream |-> 0, router |-> 0, ended |-> FALSE]

Sent(from, ended) == [Silent EXCEPT !.from = from, !.ended = ended]

Refused(upstream, router) ==
    [Silent EXCEPT !.upstream = upstream, !.router = router, !.ended = TRUE]

\* The bytes are those of a single attempt.
One(from) == \E a \in from : from = {a}

Init == wire = Silent

\* First bytes of a stream, or a whole reply at once.
Begin ==
    /\ wire = Silent
    /\ One(wire'.from)
    /\ \E ended \in BOOLEAN : wire' = Sent(wire'.from, ended)

Refuse == wire = Silent /\ wire' \in {Refused(1, 0), Refused(0, 1)}

\* The stream gets its terminator, a regular one or an error frame.
End ==
    /\ One(wire.from)
    /\ wire = Sent(wire.from, FALSE)
    /\ wire' = Sent(wire.from, TRUE)

Next == Begin \/ Refuse \/ End

Spec == Init /\ [][Next]_wire
=============================================================================
