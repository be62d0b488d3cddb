---------------------------- MODULE ReplicatedOps ---------------------------
(***************************************************************************)
(* What the pair of controllers promises about signed operations, without  *)
(* roles, messages, retries or restarts: an operation is first recorded by *)
(* one controller, may then be copied to the other, is never forgotten,    *)
(* and is acknowledged to its client only once both controllers hold it.   *)
(***************************************************************************)
CONSTANTS Node, Operation

VARIABLES holders,   \* holders[o]: the controllers whose store records o
          answered   \* the operations a client was told are accepted

rvars == <<holders, answered>>

RInit == /\ holders = [o \in Operation |-> {}]
         /\ answered = {}

\* One controller records o, the first to do so or the second.
Record(n, o) ==
    /\ n \notin holders[o]
    /\ holders' = [holders EXCEPT ![o] = @ \cup {n}]
    /\ UNCHANGED answered

\* A client is answered 200 for o.
AnswerClient(o) ==
    /\ holders[o] = Node
    /\ answered' = answered \cup {o}
    /\ UNCHANGED holders

RNext == \E o \in Operation : AnswerClient(o) \/ \E n \in Node : Record(n, o)

RSpec == RInit /\ [][RNext]_rvars
=============================================================================
