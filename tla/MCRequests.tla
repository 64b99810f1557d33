---------------------------- MODULE MCRequests ----------------------------
(* A client that answers calls whole, in part or not at all, types and     *)
(* relays commands, and upstreams that call tools, reason and are cut.     *)
EXTENDS Requests

Say(n) == Frag("say", n, 0)
Calls(c) == IF c # <<>> /\ Last(c).role = "assistant" THEN Of(Last(c).blocks, {"call"}) ELSE <<>>

\* Tool output: the plain one, one that carries an image, and a command an
\* agent printed (alone, or above a line of output).
Outputs(n, i) ==
  {<<Frag("out", n, i)>>, <<Frag("out", n, i), Frag("img", n, i)>>,
   <<Frag("force", n, i), Frag("out", n, i)>>, <<Frag("rf", n, i)>>}

Typed(n) ==
  {<<Text(<<Say(n)>>)>>, <<Text(<<Say(n)>>), Image(<<Frag("img", n, 0)>>)>>,
   <<Text(<<Frag("force", n, 0)>>)>>, <<Text(<<Frag("force", n, 0), Say(n)>>)>>,
   <<Text(<<Frag("rf", n, 0)>>)>>, <<Text(<<Frag("beta", n, 0)>>)>>}

\* The first k calls answered, the last of them in any way; the first of
\* several may carry a command.
Answers(n, calls, k) ==
  LET Results(p, out) ==
        [i \in 1 .. k |-> Result(calls[i].id, IF i = p THEN out ELSE <<Frag("out", n, i)>>)]
  IN {Results(k, out) \o more : out \in Outputs(n, k), more \in {<<>>, <<Text(<<Say(n)>>)>>}}
     \union {Results(1, <<Frag("force", n, 1)>>)}

\* An agent session resumed without its last assistant turn.
Resumed(n) == {<<Result(<<n, 9>>, <<Frag("out", n, 9)>>), Text(<<Say(n)>>)>>}

MCUserTurns(c) ==
  LET n == Len(c) + 1
      calls == Calls(c)
  IN Typed(n) \union (IF n = 1 THEN Resumed(n) ELSE {})
     \union UNION {Answers(n, calls, k) : k \in 1 .. Len(calls)}

\* A badge opens a reply unless the client turned badges off, a footer closes one without calls; a reply may be
\* lost whole.
MCReplies(s, w, n) ==
  LET badge == Frag("badge", n, 0)
      reasoned == s = "anthropic"
      sig == IF w = "chat" THEN "unsigned" ELSE w
      carried == IF reasoned /\ w = "responses" THEN w ELSE "none"
      thinking == IF reasoned THEN <<Think(n, sig)>> ELSE <<>>
  IN {<<>>, <<Text(<<badge, Say(n), Frag("footer", n, 0)>>)>>,
      thinking \o <<Text(<<badge>>), Call(n, 1, carried)>>,
      <<Text(<<badge, Say(n)>>), Call(n, 1, carried), Call(n, 2, carried)>>}
     \union (IF s = "chat" THEN {<<Call(n, 1, carried)>>} ELSE {})

MCRescueTurns == <<2, 1>>
=============================================================================
