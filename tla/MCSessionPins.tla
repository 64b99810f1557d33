---------------------------- MODULE MCSessionPins ----------------------------
(* Finite instances of SessionPins for TLC.                                 *)
EXTENDS SessionPins, TLC

CONSTANTS m1, m2, p1, p2, r1, r2

\* Every model has its own provider.
OneProviderEach == m1 :> {p1} @@ m2 :> {p2}

\* A single model that two providers serve.
OneModel == m1 :> {p1, p2}

RequestSymmetry == Permutations(Requests)
=============================================================================
