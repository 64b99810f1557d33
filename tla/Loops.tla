-------------------------------- MODULE Loops --------------------------------
(* The loop the code filters a slice with (for ... { if ... { append } }), as *)
(* a recursive function: SelectSeq in a form that can be reasoned about.      *)
EXTENDS Naturals, Sequences

\* The elements of s that are in set, in order.
Keep(s, set) ==
    LET kept[n \in 0 .. Len(s)] ==
          IF n = 0 THEN <<>>
          ELSE IF s[n] \in set THEN Append(kept[n - 1], s[n]) ELSE kept[n - 1]
    IN kept[Len(s)]
=============================================================================
