------------------------------ MODULE MCStreams ------------------------------
(* Every pair of formats with the options that matter to its writers: long   *)
(* streams on one binding, short ones with a second binding to fall back to. *)
EXTENDS Streams

Plain ==
    [ client |-> "anthropic", up |-> "chat", marker |-> FALSE, footer |-> TRUE,
      hadTools |-> FALSE, thinkTag |-> FALSE, mappings |-> FALSE, native |-> FALSE,
      desc |-> FALSE, events |-> 2, bindings |-> 1 ]

Pairs == {"anthropic", "chat", "responses"} \X {"chat", "responses", "anthropic"}
             \ {<<"responses", "responses">>}

\* One short stream of every pair of formats, with a marker and a fallback.
Short ==
    { [Plain EXCEPT !.client = p[1], !.up = p[2], !.marker = TRUE, !.bindings = 2,
                    !.events = IF p[2] = "chat" THEN 1 ELSE 2] : p \in Pairs }

Long ==
    { [Plain EXCEPT !.thinkTag = TRUE, !.events = 3],
      [Plain EXCEPT !.hadTools = TRUE],
      [Plain EXCEPT !.up = "responses", !.events = 3],
      [Plain EXCEPT !.client = "responses", !.events = 3],
      [Plain EXCEPT !.client = "responses", !.events = 3, !.mappings = TRUE, !.desc = TRUE],
      [Plain EXCEPT !.client = "responses", !.native = TRUE, !.footer = FALSE] }

MCRequests == Short \union Long
=============================================================================
