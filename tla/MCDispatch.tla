----------------------------- MODULE MCDispatch -----------------------------
(* Finite instances of Dispatch for TLC.                                    *)
EXTENDS Dispatch, TLC

CONSTANTS m1, m2, p1, p2, p3

\* m1 has two bindings; m2, its sibling, shares one of them.
TwoBindings == m1 :> <<p1, p2>> @@ m2 :> <<p2, p3>>

MCDecisions == { [model |-> m1, provider |-> p1], [model |-> m1, provider |-> p2] }

Candidate(m, via) == [model |-> m, via |-> via]

\* The sibling's provider is the catalog's, or one that routing resolved.
MCCandidates ==
    { <<>> } \cup { <<Candidate(m1, {p1}), Candidate(m2, via)>> : via \in {{}, {p3}} }

\* None, one or both bindings of m1 disabled for the session.
SomeDisabled == { {}, {p1}, {p1, p2} }
=============================================================================
