--------------------------- MODULE MCOMPExtension ---------------------------
(***************************************************************************)
(* Small instances of OMPExtension for TLC.                                *)
(***************************************************************************)
EXTENDS OMPExtension

CONSTANTS t1, t2, agent, p, q, x, y, h1, h2

OneAgent == [t \in Transcripts |-> agent]

\* No limit, a limit on the agent, a limit on one provider.
NoLimit == [s \in Scope |-> Unlimited]
Free == [threshold |-> 2, limits |-> NoLimit]
Tight == [threshold |-> 2, limits |-> [NoLimit EXCEPT ![agent] = 1]]
OnProvider == [threshold |-> 2, limits |-> [NoLimit EXCEPT ![p] = 0]]
Strict == [threshold |-> 1, limits |-> [NoLimit EXCEPT ![agent] = 0]]

TightOnly == {Tight}
ProviderOnly == {OnProvider}
TwoPolicies == {Tight, Strict}
=============================================================================
