-------------------------- MODULE MCObservability --------------------------
(* Finite instances of Observability for TLC.                               *)
EXTENDS Observability

CONSTANTS i1, i2, k1, k2, a, b, p1, p2, hmm, rl, r1, r2

Served(inst, key, model, strategy, read) ==
    [ kind |-> "served", inst |-> inst, key |-> key, model |-> model,
      provider |-> p1, strategy |-> strategy, tokens |-> 3,
      requested |-> 5, actual |-> 2, write |-> 1, read |-> read ]

\* The same turn served by the model's other provider.
Elsewhere(turn) == [turn EXCEPT !.provider = p2]

Semantic(inst, key, model) == [Served(inst, key, model, Null, Null) EXCEPT !.kind = "semantic"]
Auxiliary(inst, key, model) == [Served(inst, key, model, Null, 1) EXCEPT !.kind = "auxiliary"]

\* Row ids in the order of the turns, or the other way round.
Ids == { <<1, 2>>, <<2, 1>> }

MCScenarios ==
    { [ reader |-> "export", lag |-> lag, end |-> 5, id |-> id,
        turn |-> << Served(i1, k1, a, hmm, 1), Served(inst, k2, a, hmm, Null) >> ]
        : lag \in 0..1, id \in Ids, inst \in {i1, i2} }
    \union
    { [ reader |-> "dashboard", lag |-> 0, end |-> 3, id |-> <<1, 2>>,
        turn |-> << Served(i1, k1, a, hmm, 2), second >> ]
        : second \in { Served(i2, k2, a, hmm, 2), Served(i1, k1, a, hmm, 1),
                       Elsewhere(Served(i1, k1, a, hmm, 2)), Semantic(i1, k1, b), Auxiliary(i1, k1, b) } }
    \union
    { [ reader |-> "feedback", lag |-> 0, end |-> 3, id |-> <<1, 2, 3>>,
        turn |-> << Served(i1, k1, a, hmm, 1), second, Served(i1, k1, b, rl, 1) >> ]
        : second \in {Semantic(i1, k1, b), Auxiliary(i1, k1, b)} }
    \union
    { [ reader |-> "spans", lag |-> 0, end |-> 0, id |-> <<>>, turn |-> <<>> ] }

\* The providers of a model differ in price; the other model has none.
MCSaved == [b2 \in {a, b} \X {p1, p2} |-> IF b2[1] # a THEN 0 ELSE IF b2[2] = p1 THEN 2 ELSE 1]

MCRecorded == [r \in {r1, r2} |-> [k \in Kinds |-> IF k = "span" \/ r = r1 THEN 1 ELSE 0]]
=============================================================================
