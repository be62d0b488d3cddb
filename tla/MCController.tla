--------------------------- MODULE MCController ---------------------------
(***************************************************************************)
(* Small instances of Controller for TLC.                                  *)
(***************************************************************************)
EXTENDS Controller

CONSTANTS a, b     \* the two controllers

EveryNumber == 0 .. 4

\* A policy of the one writer, with an operation id of its own and no
\* compare-and-swap field.
PolicyEnvelope(n) ==
    [op |-> n, kind |-> "policy", key |-> "writer", seq |-> n,
     epochs |-> EveryNumber, generations |-> EveryNumber]

OnePolicy == {PolicyEnvelope(1)}
TwoPolicies == {PolicyEnvelope(1), PolicyEnvelope(2)}

\* Two policies, and a report that expects the generation of the first of them.
PoliciesAndReport ==
    TwoPolicies \cup
    {[PolicyEnvelope(3) EXCEPT !.kind = "report", !.generations = {1}]}

\* Two envelopes that a client signed for one operation id.
OneOperation == {PolicyEnvelope(1), [PolicyEnvelope(1) EXCEPT !.seq = 2]}
=============================================================================
