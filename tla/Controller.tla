----------------------------- MODULE Controller -----------------------------
(***************************************************************************)
(* The pair of modelctl controllers: signed mutations on the active one,   *)
(* their replication to the other (prepare, local commit, remote commit),  *)
(* the outbox and its recovery after a restart, fencing and promotion.     *)
(*                                                                         *)
(* A controller process serves one request at a time: its handlers are     *)
(* coroutines that call blocking code, so while it waits for its peer it   *)
(* answers nobody.  pc[n] says which call controller n is blocked in.      *)
(* Calls to the peer are HTTP requests: the answer may be lost, the caller *)
(* may give up at any time (the timeout), and the request itself may still *)
(* be handled later, or never.                                             *)
(*                                                                         *)
(* Every SQLite transaction of the store is one step here.  Consecutive    *)
(* transactions of one handler with no call between them are merged when a *)
(* crash between them has the same effect as a crash before the request    *)
(* that follows is delivered.                                              *)
(***************************************************************************)
EXTENDS Naturals, FiniteSets, ReplayWindow

CONSTANTS
    Node,          \* the two controllers
    First,         \* the one configured as active
    Envelope,      \* the signed client envelopes
    NoRow,         \* what a fence request carries in place of a row
    NoRequest,     \* an idle controller waits for no answer
    InitEpoch,     \* the epoch both are configured with
    MaxEpoch,      \* bound: the highest epoch of a fencing receipt
    MaxSeq,        \* bound: no new call once this many envelopes were signed
    MaxRestarts    \* bound: restarts of the two together

\* An envelope carries its operation id, the kind of its mutation, the key and
\* sequence it is signed with, and the epochs and generations its
\* compare-and-swap fields accept (all of them when a field is absent).
\* The envelope itself stands for its fingerprint and for its nonce.
ASSUME EnvelopeAssumption ==
    \A e \in Envelope :
        /\ DOMAIN e = {"op", "kind", "key", "seq", "epochs", "generations"}
        /\ e.kind \in {"policy", "report"}
        /\ e.seq \in Nat

ASSUME NodeAssumption ==
    /\ First \in Node
    /\ \E m \in Node : m # First /\ Node = {First, m}

ASSUME BoundAssumption ==
    /\ InitEpoch \in Nat
    /\ MaxEpoch \in Nat
    /\ MaxSeq \in Nat
    /\ MaxRestarts \in Nat

Operation == {e.op : e \in Envelope}

Peer(n) == CHOOSE m \in Node : m # n

\* A row of prepared_operations or of replication_outbox, and the replication
\* message built from it: seq is that of the replication envelope.
Row == [env : Envelope, epoch : Nat, generation : Nat, seq : Nat]

ASSUME NoRowAssumption == NoRow \notin Row

\* A row of the operations table.
OpRow == [env : Envelope, epoch : Nat, generation : Nat,
          state : {"pending", "committed"}]

\* Requests one controller sends the other.  life is the incarnation of the
\* sender: an answer goes to the process that asked.
Request == [kind : {"prepare", "commit", "abort", "fence"},
            src : Node, life : Nat, seq : Nat,
            row : Row \cup {NoRow}, epoch : Nat]

ASSUME NoRequestAssumption == NoRequest \notin Request

VARIABLES
    role, epoch, generation,   \* the state table
    seen,         \* client envelopes in replay_nonces
    replSeen,     \* sequences of the peer's replication key in replay_nonces
    outSeq,       \* outbound_sequences
    ops,          \* operations
    prepared,     \* prepared_operations
    outbox,       \* replication_outbox; its rows are in the order of seq
    policies,     \* policy_bundles: <<generation, envelope>>
    pc,           \* which call the process is blocked in, "idle" when in none
    request,      \* the request it waits for an answer to
    answer,       \* the answer that request got: "none", "yes", "no"
    todo,         \* recovery: the outbox rows read at startup, not yet tried
    life,         \* incarnation of the process
    net,          \* requests sent and not handled (or lost)
    acked         \* history: envelopes answered 200

store == <<role, epoch, generation, seen, replSeen, outSeq, ops, prepared,
           outbox, policies>>
process == <<pc, request, answer, todo, life>>
vars == <<role, epoch, generation, seen, replSeen, outSeq, ops, prepared,
          outbox, policies, pc, request, answer, todo, life, net, acked>>

\* Every request but a fence is about a row.
HasRow(m) == m.kind # "fence" => m.row \in Row

\* The request a blocked process waits for is its own, of the kind its place in
\* the code says.
CallOK(n) ==
    pc[n] \notin {"idle", "recover"} =>
        /\ request[n] \in Request
        /\ HasRow(request[n])
        /\ request[n].src = n
        /\ pc[n] \in {"prepare", "recover-prepare"} => request[n].kind = "prepare"
        /\ pc[n] \in {"commit", "recover-commit"} => request[n].kind = "commit"
        /\ pc[n] = "abort" => request[n].kind = "abort"
        /\ pc[n] = "fence" => request[n].kind = "fence"

TypeOK ==
    /\ role \in [Node -> {"active", "standby", "follower"}]
    /\ epoch \in [Node -> Nat]
    /\ generation \in [Node -> Nat]
    /\ seen \in [Node -> SUBSET Envelope]
    /\ replSeen \in [Node -> SUBSET Nat]
    /\ outSeq \in [Node -> Nat]
    /\ ops \in [Node -> SUBSET OpRow]
    /\ prepared \in [Node -> SUBSET Row]
    /\ outbox \in [Node -> SUBSET Row]
    /\ policies \in [Node -> SUBSET (Nat \X Envelope)]
    /\ pc \in [Node -> {"idle", "prepare", "abort", "commit", "recover",
                        "recover-prepare", "recover-commit", "fence"}]
    /\ request \in [Node -> Request \cup {NoRequest}]
    /\ \A n \in Node : CallOK(n)
    /\ answer \in [Node -> {"none", "yes", "no"}]
    /\ todo \in [Node -> SUBSET Row]
    /\ life \in [Node -> Nat]
    /\ net \subseteq Request
    /\ \A m \in net : HasRow(m)
    /\ acked \subseteq Envelope

Init ==
    /\ role = [n \in Node |-> IF n = First THEN "active" ELSE "standby"]
    /\ epoch = [n \in Node |-> InitEpoch]
    /\ generation = [n \in Node |-> 0]
    /\ seen = [n \in Node |-> {}]
    /\ replSeen = [n \in Node |-> {}]
    /\ outSeq = [n \in Node |-> 0]
    /\ ops = [n \in Node |-> {}]
    /\ prepared = [n \in Node |-> {}]
    /\ outbox = [n \in Node |-> {}]
    /\ policies = [n \in Node |-> {}]
    /\ pc = [n \in Node |-> "idle"]
    /\ request = [n \in Node |-> NoRequest]
    /\ answer = [n \in Node |-> "none"]
    /\ todo = [n \in Node |-> {}]
    /\ life = [n \in Node |-> 0]
    /\ net = {}
    /\ acked = {}

-----------------------------------------------------------------------------
(* The store's lookups and updates *)

Holds(n, o) == \E r \in ops[n] : r.env.op = o          \* operation() is not None
IsPrepared(n, o) == \E p \in prepared[n] : p.env.op = o  \* prepared() is not None

\* Mutant: an operation that is not there counts as replicated.
CommittedUnlessPending(n, o) ==
    \A r \in ops[n] : r.env.op = o => r.state = "committed"

Committed(n, o) == \E r \in ops[n] : r.env.op = o /\ r.state = "committed"

\* Mutant: the later number replaces the earlier one whatever their order.
LastWritten(current, new) == new

\* commit_replication raises the epoch and the generation, never lowers them.
Later(current, new) == IF new > current THEN new ELSE current

\* _apply_payload_tx raises: policy_bundles already has a row for that generation.
PolicyConflict(n, row) ==
    row.env.kind = "policy" /\ \E p \in policies[n] : p[1] = row.generation

\* _apply_payload_tx: only a policy meets a constraint that can refuse it; the
\* other kinds append a row or replace the row of the same host or record.
ApplyPayload(n, row) ==
    policies' = [policies EXCEPT ![n] =
        IF row.env.kind = "policy" THEN @ \cup {<<row.generation, row.env>>} ELSE @]

\* Mutant: record_operation is left its default state.
RecordCommitted(n, row, s) ==
    ops' = [ops EXCEPT ![n] = @ \cup {[env |-> row.env, epoch |-> row.epoch,
                                       generation |-> row.generation,
                                       state |-> "committed"]}]

RecordOperation(n, row, s) ==
    ops' = [ops EXCEPT ![n] = @ \cup {[env |-> row.env, epoch |-> row.epoch,
                                       generation |-> row.generation, state |-> s]}]

\* Mutant: the operation stays in the outbox.
MarkReplicatedOnly(n, o) ==
    /\ ops' = [ops EXCEPT ![n] =
                 {IF r.env.op = o THEN [r EXCEPT !.state = "committed"] ELSE r : r \in @}]
    /\ UNCHANGED outbox

\* mark_replicated: the operation is committed and leaves the outbox.
MarkReplicated(n, o) ==
    /\ ops' = [ops EXCEPT ![n] =
                 {IF r.env.op = o THEN [r EXCEPT !.state = "committed"] ELSE r : r \in @}]
    /\ outbox' = [outbox EXCEPT ![n] = {r \in @ : r.env.op # o}]

(* A process blocks in a call, and leaves it. *)

\* What a blocked process works on.
Job(n) == request[n].row

\* Mutant: the process waits for the answer to its previous request.
PostOnly(n, where, r) ==
    /\ net' = net \cup {r}
    /\ pc' = [pc EXCEPT ![n] = where]
    /\ answer' = [answer EXCEPT ![n] = "none"]
    /\ UNCHANGED request

Post(n, where, r) ==
    /\ net' = net \cup {r}
    /\ pc' = [pc EXCEPT ![n] = where]
    /\ request' = [request EXCEPT ![n] = r]
    /\ answer' = [answer EXCEPT ![n] = "none"]

\* Sign with the next outbound sequence, send, and wait for the answer.
Call(n, where, kind, row, e) ==
    /\ outSeq' = [outSeq EXCEPT ![n] = @ + 1]
    /\ Post(n, where, [kind |-> kind, src |-> n, life |-> life[n],
                       seq |-> outSeq[n] + 1, row |-> row, epoch |-> e])

Leave(n, where) ==
    /\ pc' = [pc EXCEPT ![n] = where]
    /\ request' = [request EXCEPT ![n] = NoRequest]
    /\ answer' = [answer EXCEPT ![n] = "none"]

\* What the caller gets: the answer if one came, or a failure: the peer said
\* no, the answer was lost, or the timeout elapsed.
Gets(n, result) == result \in {FALSE, answer[n] = "yes"}

-----------------------------------------------------------------------------
(* mutate: a client submits a signed mutation *)

\* Mutant: the expected generation is not compared.
AdmitsAnyGeneration(n, e) ==
    /\ role[n] = "active"
    /\ ~ Holds(n, e.op)
    /\ epoch[n] \in e.epochs
    /\ Fresh(e, seen[n])

\* The transaction that opens mutate lets the envelope through.
Admits(n, e) ==
    /\ role[n] = "active"
    /\ ~ Holds(n, e.op)
    /\ epoch[n] \in e.epochs
    /\ generation[n] \in e.generations
    /\ Fresh(e, seen[n])

\* A policy starts a new generation.
Raise(e) == IF e.kind = "policy" THEN 1 ELSE 0

\* The row mutate builds for e: it signs it with the next outbound sequence.
NewRow(n, e) ==
    [env |-> e, epoch |-> epoch[n], generation |-> generation[n] + Raise(e),
     seq |-> outSeq[n] + 1]

Submit(n, e) ==
    /\ pc[n] = "idle"
    /\ outSeq[n] < MaxSeq
    /\ Admits(n, e)
    /\ seen' = [seen EXCEPT ![n] = @ \cup {e}]
    /\ Call(n, "prepare", "prepare", NewRow(n, e), 0)
    /\ UNCHANGED <<role, epoch, generation, replSeen, ops, prepared, outbox,
                   policies, todo, life, acked>>

\* Mutant: a retry is answered 200 while the operation is still pending.
AnswerPending(n, e) ==
    /\ pc[n] = "idle"
    /\ role[n] = "active"
    /\ \E r \in ops[n] : r.env = e
    /\ acked' = acked \cup {e}
    /\ UNCHANGED <<store, process, net>>

\* The operation is already replicated: mutate answers 200 at once.
AnswerAgain(n, e) ==
    /\ pc[n] = "idle"
    /\ role[n] = "active"
    /\ \E r \in ops[n] : r.env = e /\ r.state = "committed"
    /\ acked' = acked \cup {e}
    /\ UNCHANGED <<store, process, net>>

\* Every other submission is refused (409, 401 or 503) and changes nothing.
Refuse(n, e) ==
    /\ pc[n] = "idle"
    /\ ~ Admits(n, e)
    /\ ~ (role[n] = "active" /\ \E r \in ops[n] : r.env = e /\ r.state = "committed")
    /\ UNCHANGED vars

\* The local transaction raises: the role or the epoch changed while the peer
\* was asked, or the policy's generation is taken.
LocalCommitFails(n) ==
    \/ role[n] # "active"
    \/ epoch[n] # Job(n).epoch
    \/ PolicyConflict(n, Job(n))

\* The peer prepared: commit locally, put the row in the outbox, ask the peer
\* to commit.
LocalCommit(n) ==
    /\ pc[n] = "prepare"
    /\ Gets(n, TRUE)
    /\ ~ LocalCommitFails(n)
    /\ ApplyPayload(n, Job(n))
    /\ RecordOperation(n, Job(n), "pending")
    /\ outbox' = [outbox EXCEPT ![n] = @ \cup {Job(n)}]
    /\ generation' = [generation EXCEPT ![n] = Job(n).generation]
    /\ Call(n, "commit", "commit", Job(n), 0)
    /\ UNCHANGED <<role, epoch, seen, replSeen, prepared, todo, life, acked>>

\* The peer did not prepare, or the local transaction was rolled back: ask the
\* peer to abort.
GiveUp(n) ==
    /\ pc[n] = "prepare"
    /\ Gets(n, FALSE) \/ (Gets(n, TRUE) /\ LocalCommitFails(n))
    /\ Call(n, "abort", "abort", Job(n), 0)
    /\ UNCHANGED <<role, epoch, generation, seen, replSeen, ops, prepared,
                   outbox, policies, todo, life, acked>>

\* Whatever the abort's outcome: forget the client's envelope and answer 503.
AbortDone(n) ==
    /\ pc[n] = "abort"
    /\ seen' = [seen EXCEPT ![n] = @ \ {Job(n).env}]
    /\ Leave(n, "idle")
    /\ UNCHANGED <<role, epoch, generation, replSeen, outSeq, ops, prepared,
                   outbox, policies, todo, life, net, acked>>

\* The peer committed: the operation is replicated, answer 200.
CommitAcked(n) ==
    /\ pc[n] = "commit"
    /\ Gets(n, TRUE)
    /\ MarkReplicated(n, Job(n).env.op)
    /\ acked' = acked \cup {Job(n).env}
    /\ Leave(n, "idle")
    /\ UNCHANGED <<role, epoch, generation, seen, replSeen, outSeq, prepared,
                   policies, todo, life, net>>

\* The commit failed or its answer is lost: answer 503, the outbox row stays.
CommitUnanswered(n) ==
    /\ pc[n] = "commit"
    /\ Gets(n, FALSE)
    /\ Leave(n, "idle")
    /\ UNCHANGED <<role, epoch, generation, seen, replSeen, outSeq, ops,
                   prepared, outbox, policies, todo, life, net, acked>>

-----------------------------------------------------------------------------
(* recover_pending_operations: at startup, before the process serves anyone *)

Restart(n) ==
    /\ life[n] + life[Peer(n)] < MaxRestarts
    /\ life' = [life EXCEPT ![n] = @ + 1]
    /\ todo' = [todo EXCEPT ![n] = outbox[n]]
    /\ Leave(n, "recover")
    /\ UNCHANGED <<store, net, acked>>

\* Mutant: startup tries the oldest row until it is replicated.
RecoverSame(n) ==
    /\ pc[n] = "recover"
    /\ \E r \in todo[n] :
         /\ \A s \in todo[n] : r.seq <= s.seq
         /\ Post(n, "recover-prepare",
                 [kind |-> "prepare", src |-> n, life |-> life[n],
                  seq |-> r.seq, row |-> r, epoch |-> 0])
    /\ UNCHANGED <<store, todo, life, acked>>

\* Prepare the oldest outbox row again, with its stored replication envelope.
RecoverNext(n) ==
    /\ pc[n] = "recover"
    /\ \E r \in todo[n] :
         /\ \A s \in todo[n] : r.seq <= s.seq
         /\ todo' = [todo EXCEPT ![n] = @ \ {r}]
         /\ Post(n, "recover-prepare",
                 [kind |-> "prepare", src |-> n, life |-> life[n],
                  seq |-> r.seq, row |-> r, epoch |-> 0])
    /\ UNCHANGED <<store, life, acked>>

RecoverCommit(n) ==
    /\ pc[n] = "recover-prepare"
    /\ Gets(n, TRUE)
    /\ Call(n, "recover-commit", "commit", Job(n), 0)
    /\ UNCHANGED <<role, epoch, generation, seen, replSeen, ops, prepared,
                   outbox, policies, todo, life, acked>>

RecoverAcked(n) ==
    /\ pc[n] = "recover-commit"
    /\ Gets(n, TRUE)
    /\ MarkReplicated(n, Job(n).env.op)
    /\ Leave(n, "recover")
    /\ UNCHANGED <<role, epoch, generation, seen, replSeen, outSeq, prepared,
                   policies, todo, life, net, acked>>

\* The row stays in the outbox for the next restart.
RecoverFailed(n) ==
    /\ pc[n] \in {"recover-prepare", "recover-commit"}
    /\ Gets(n, FALSE)
    /\ Leave(n, "recover")
    /\ UNCHANGED <<store, todo, life, net, acked>>

RecoverDone(n) ==
    /\ pc[n] = "recover"
    /\ todo[n] = {}
    /\ Leave(n, "idle")
    /\ UNCHANGED <<store, todo, life, net, acked>>

-----------------------------------------------------------------------------
(* promote: fence the peer, then become active *)

Promote(n, e) ==
    /\ pc[n] = "idle"
    /\ outSeq[n] < MaxSeq
    /\ role[n] # "active"
    /\ e > epoch[n]
    /\ Call(n, "fence", "fence", NoRow, e)
    /\ UNCHANGED <<role, epoch, generation, seen, replSeen, ops, prepared,
                   outbox, policies, todo, life, acked>>

\* Mutant: the standby is promoted without the fence's answer.
PromotedUnfenced(n) ==
    /\ pc[n] = "fence"
    /\ role[n] # "active"
    /\ request[n].epoch > epoch[n]
    /\ role' = [role EXCEPT ![n] = "active"]
    /\ epoch' = [epoch EXCEPT ![n] = request[n].epoch]
    /\ Leave(n, "idle")
    /\ UNCHANGED <<generation, seen, replSeen, outSeq, ops, prepared, outbox,
                   policies, todo, life, net, acked>>

\* The old active is fenced: become active in the receipt's epoch.
Promoted(n) ==
    /\ pc[n] = "fence"
    /\ Gets(n, TRUE)
    /\ role[n] # "active"
    /\ request[n].epoch > epoch[n]
    /\ role' = [role EXCEPT ![n] = "active"]
    /\ epoch' = [epoch EXCEPT ![n] = request[n].epoch]
    /\ Leave(n, "idle")
    /\ UNCHANGED <<generation, seen, replSeen, outSeq, ops, prepared, outbox,
                   policies, todo, life, net, acked>>

\* The old active could not be fenced, or no answer came.
PromotionFails(n) ==
    /\ pc[n] = "fence"
    /\ Gets(n, FALSE)
    /\ Leave(n, "idle")
    /\ UNCHANGED <<store, todo, life, net, acked>>

-----------------------------------------------------------------------------
(* Requests of the peer, handled by an idle process *)

\* The answer goes back on the connection of its request, if the caller is
\* still there.
Reply(m, result) ==
    answer' = IF request[m.src] = m
              THEN [answer EXCEPT ![m.src] = IF result THEN "yes" ELSE "no"]
              ELSE answer

Arrives(n, m, kinds) ==
    /\ pc[n] = "idle"
    /\ m \in net
    /\ m.src = Peer(n)
    /\ m.kind \in kinds
    /\ net' = net \ {m}

\* prepare_replication: an operation or a preparation of the same id decides
\* by its fingerprint alone; nothing else is then checked or recorded.
PrepareKnown(n, m) ==
    /\ Arrives(n, m, {"prepare"})
    /\ Holds(n, m.row.env.op) \/ IsPrepared(n, m.row.env.op)
    /\ Reply(m, IF Holds(n, m.row.env.op)
                THEN \E r \in ops[n] : r.env = m.row.env
                ELSE \E p \in prepared[n] : p.env = m.row.env)
    /\ UNCHANGED <<store, pc, request, todo, life, acked>>

\* The epoch and the generation are not behind, and both envelopes are new.
Acceptable(n, m) ==
    /\ m.row.epoch >= epoch[n]
    /\ m.row.generation >= generation[n]
    /\ FreshSeq(m.seq, replSeen[n])
    /\ Fresh(m.row.env, seen[n])

PrepareNew(n, m) ==
    /\ Arrives(n, m, {"prepare"})
    /\ ~ Holds(n, m.row.env.op)
    /\ ~ IsPrepared(n, m.row.env.op)
    /\ Acceptable(n, m)
    /\ replSeen' = [replSeen EXCEPT ![n] = @ \cup {m.seq}]
    /\ seen' = [seen EXCEPT ![n] = @ \cup {m.row.env}]
    /\ prepared' = [prepared EXCEPT ![n] = @ \cup {m.row}]
    /\ Reply(m, TRUE)
    /\ UNCHANGED <<role, epoch, generation, outSeq, ops, outbox, policies,
                   pc, request, todo, life, acked>>

PrepareRefused(n, m) ==
    /\ Arrives(n, m, {"prepare"})
    /\ ~ Holds(n, m.row.env.op)
    /\ ~ IsPrepared(n, m.row.env.op)
    /\ ~ Acceptable(n, m)
    /\ Reply(m, FALSE)
    /\ UNCHANGED <<store, pc, request, todo, life, acked>>

\* apply_replication_control: a control request is accepted by its sequence in
\* a transaction of its own, before the action.
ControlStale(n, m) ==
    /\ Arrives(n, m, {"commit", "abort", "fence"})
    /\ ~ FreshSeq(m.seq, replSeen[n])
    /\ Reply(m, FALSE)
    /\ UNCHANGED <<store, pc, request, todo, life, acked>>

ControlAccepted(n, m, kind) ==
    /\ Arrives(n, m, {kind})
    /\ FreshSeq(m.seq, replSeen[n])

\* The process dies between the two transactions.
ControlCrash(n, m) ==
    /\ m.kind # "prepare"
    /\ ControlAccepted(n, m, m.kind)
    /\ life[n] + life[Peer(n)] < MaxRestarts
    /\ replSeen' = [replSeen EXCEPT ![n] = @ \cup {m.seq}]
    /\ life' = [life EXCEPT ![n] = @ + 1]
    /\ todo' = [todo EXCEPT ![n] = outbox[n]]
    /\ Leave(n, "recover")
    /\ UNCHANGED <<role, epoch, generation, seen, outSeq, ops, prepared,
                   outbox, policies, acked>>

\* Mutant: a preparation of a deposed controller is applied.
ApplicableAnyEpoch(n, p) == ~ PolicyConflict(n, p)

\* commit_replication finds a preparation it may apply: its epoch is not
\* behind, and its policy's generation is free.
Applicable(n, p) == p.epoch >= epoch[n] /\ ~ PolicyConflict(n, p)

\* commit_replication applies the preparation, with the epoch and generation it
\* was prepared with; a newer epoch makes this controller a follower.
CommitApplies(n, m) ==
    /\ ControlAccepted(n, m, "commit")
    /\ ~ Holds(n, m.row.env.op)
    /\ \E p \in prepared[n] :
         /\ p.env.op = m.row.env.op
         /\ Applicable(n, p)
         /\ role' = [role EXCEPT ![n] = IF p.epoch > epoch[n] THEN "follower" ELSE @]
         /\ epoch' = [epoch EXCEPT ![n] = Later(@, p.epoch)]
         /\ ApplyPayload(n, p)
         /\ RecordOperation(n, p, "committed")
         /\ prepared' = [prepared EXCEPT ![n] = @ \ {p}]
         /\ generation' = [generation EXCEPT ![n] = Later(@, p.generation)]
    /\ replSeen' = [replSeen EXCEPT ![n] = @ \cup {m.seq}]
    /\ Reply(m, TRUE)
    /\ UNCHANGED <<seen, outSeq, outbox, pc, request, todo, life, acked>>

\* commit_replication changes nothing: the operation is there already, or there
\* is no preparation, or the preparation is refused.
CommitKnown(n, m) ==
    /\ ControlAccepted(n, m, "commit")
    /\ \/ Holds(n, m.row.env.op)
       \/ \A p \in prepared[n] : p.env.op = m.row.env.op => ~ Applicable(n, p)
    /\ replSeen' = [replSeen EXCEPT ![n] = @ \cup {m.seq}]
    /\ Reply(m, Committed(n, m.row.env.op))
    /\ UNCHANGED <<role, epoch, generation, seen, outSeq, ops, prepared, outbox,
                   policies, pc, request, todo, life, acked>>

\* abort_replication: forget the preparation and the replay rows it took.
Abort(n, m) ==
    /\ ControlAccepted(n, m, "abort")
    /\ LET gone == {p \in prepared[n] : p.env.op = m.row.env.op}
       IN /\ prepared' = [prepared EXCEPT ![n] = @ \ gone]
          /\ seen' = [seen EXCEPT ![n] = @ \ {p.env : p \in gone}]
          /\ replSeen' = [replSeen EXCEPT ![n] =
                            (@ \cup {m.seq}) \ {p.seq : p \in gone}]
    /\ Reply(m, TRUE)
    /\ UNCHANGED <<role, epoch, generation, outSeq, ops, outbox, policies, pc, request,
                   todo, life, acked>>

\* Mutant: any epoch will do.
NeverBehind(n, e) == FALSE

Behind(n, e) == e < epoch[n]

\* fence: step down to the receipt's epoch, unless it is behind.
Fenced(n, m) ==
    /\ ControlAccepted(n, m, "fence")
    /\ ~ Behind(n, m.epoch)
    /\ replSeen' = [replSeen EXCEPT ![n] = @ \cup {m.seq}]
    /\ role' = [role EXCEPT ![n] = "follower"]
    /\ epoch' = [epoch EXCEPT ![n] = m.epoch]
    /\ Reply(m, TRUE)
    /\ UNCHANGED <<generation, seen, outSeq, ops, prepared, outbox, policies,
                   pc, request, todo, life, acked>>

FenceRefused(n, m) ==
    /\ ControlAccepted(n, m, "fence")
    /\ Behind(n, m.epoch)
    /\ replSeen' = [replSeen EXCEPT ![n] = @ \cup {m.seq}]
    /\ Reply(m, FALSE)
    /\ UNCHANGED <<role, epoch, generation, seen, outSeq, ops, prepared, outbox,
                   policies, pc, request, todo, life, acked>>

-----------------------------------------------------------------------------
\* What an operator or a client asks of controller n.
Asked(n) ==
    \/ \E e \in Envelope : Submit(n, e) \/ AnswerAgain(n, e) \/ Refuse(n, e)
    \/ \E e \in InitEpoch .. MaxEpoch : Promote(n, e)

\* What controller n does on its own once it is in a call or recovering.
Proceeds(n) ==
    \/ LocalCommit(n) \/ GiveUp(n) \/ AbortDone(n)
    \/ CommitAcked(n) \/ CommitUnanswered(n)
    \/ RecoverNext(n) \/ RecoverCommit(n) \/ RecoverAcked(n)
    \/ RecoverFailed(n) \/ RecoverDone(n)
    \/ Promoted(n) \/ PromotionFails(n)

Handles(n, m) ==
    \/ PrepareKnown(n, m) \/ PrepareNew(n, m) \/ PrepareRefused(n, m)
    \/ ControlStale(n, m) \/ ControlCrash(n, m)
    \/ CommitApplies(n, m) \/ CommitKnown(n, m)
    \/ Abort(n, m) \/ Fenced(n, m) \/ FenceRefused(n, m)

Next ==
    \E n \in Node : \/ Asked(n)
                    \/ Proceeds(n)
                    \/ Restart(n)
                    \/ \E m \in net : Handles(n, m)

Spec == Init /\ [][Next]_vars

\* A running process takes its next step, or its timeout elapses.
FairSpec == Spec /\ \A n \in Node : WF_vars(Proceeds(n))

-----------------------------------------------------------------------------
(* What the replication and the failover promise *)

\* Row r has an epoch and a generation that the compare-and-swap fields of its
\* envelope accept; a policy counts one generation up from the one it expects.
Allowed(r) ==
    /\ r.epoch \in r.env.epochs
    /\ \E g \in r.env.generations : r.generation = g + Raise(r.env)

\* A client answered 200 has its operation in the stores of both controllers:
\* the answer of mutate is never ahead of the replication.
AckedOnBoth == \A e \in acked : \A n \in Node : Holds(n, e.op)

\* An operation a store calls committed is in the store of the other too,
\* whichever of them took it and however many commits were lost or retried.
CommittedOnBoth ==
    \A n \in Node : \A r \in ops[n] :
        r.state = "committed" => Holds(Peer(n), r.env.op)

\* Promotion fences the old active before the standby changes role: the two
\* are never active together, whatever answers were lost on the way.
OneActive == \A n \in Node : role[n] = "active" => role[Peer(n)] # "active"

\* The outbox holds the operations the store calls pending and no other, so
\* recovery has exactly what mutate left unfinished.
OutboxIsPending ==
    \A n \in Node :
        {r.env : r \in outbox[n]} = {r.env : r \in {s \in ops[n] : s.state = "pending"}}

\* Nothing of a deposed controller is recorded once its successor is active: a
\* new operation has an epoch no active controller is ahead of.
NoDeposedWrite ==
    [][\A n, k \in Node : \A r \in ops'[n] :
          (role[k] = "active" /\ ~ Holds(n, r.env.op)) => r.epoch >= epoch[k]]_vars

\* Fences, late commits and recoveries never take a controller's epoch or
\* generation back.
OnlyForward ==
    [][\A n \in Node : epoch'[n] >= epoch[n] /\ generation'[n] >= generation[n]]_vars

\* What a store records of an operation is what its signed envelope allowed: an
\* expected epoch or generation decides the same in both stores, whichever try
\* left the preparation a commit applies.
ComparedAndSwapped ==
    \A n \in Node : \A r \in ops[n] : Allowed(r)

\* An operation ID binds to one signed-envelope fingerprint: where both stores
\* hold an operation, they hold the same envelope.
OperationBindsEnvelope ==
    \A r \in UNION {ops[n] : n \in Node}, s \in UNION {ops[n] : n \in Node} :
        r.env.op = s.env.op => r.env = s.env

\* A failed remote commit leaves an outbox record for restart recovery: while
\* the peer is still in the epoch of the operation, it holds the operation, has
\* it prepared, or would prepare it from the stored envelope.
OutboxIsRecoverable ==
    \A n \in Node : \A r \in outbox[n] :
        (pc[n] = "idle" /\ epoch[Peer(n)] = r.epoch) =>
            \/ Holds(Peer(n), r.env.op)
            \/ IsPrepared(Peer(n), r.env.op)
            \/ Acceptable(Peer(n), [row |-> r, seq |-> r.seq])

\* Controllers that wait for each other do not wait forever: each call ends and
\* the process serves again.
CallsEnd == \A n \in Node : pc[n] # "idle" ~> pc[n] = "idle"

\* The abstract promise: recording, then copying, then answering.
Abstract == INSTANCE ReplicatedOps WITH
    holders <- [o \in Operation |-> {n \in Node : Holds(n, o)}],
    answered <- {e.op : e \in acked}
ReplicatesOps == Abstract!RSpec

-----------------------------------------------------------------------------
(* The inductive strengthenings the proofs use *)

\* What a commit in flight, a blocked call and the outbox say about the stores:
\* whoever asks for a commit holds the operation already, and the answer "yes"
\* means the other holds it too.
ReplicationInv ==
    /\ CommittedOnBoth
    /\ AckedOnBoth
    /\ \A m \in net : m.kind = "commit" => Holds(m.src, m.row.env.op)
    /\ \A n \in Node :
         /\ pc[n] \in {"commit", "recover-prepare", "recover-commit"}
               => Holds(n, Job(n).env.op)
         /\ (pc[n] \in {"commit", "recover-commit"} /\ answer[n] = "yes")
               => Holds(Peer(n), Job(n).env.op)
         /\ \A r \in outbox[n] \cup todo[n] : Holds(n, r.env.op)

\* An active controller is never ahead of its peer's epoch, and a promotion
\* whose fence was granted has a peer that is deposed and not being promoted.
FailoverInv ==
    \A n \in Node :
        /\ role[n] = "active" => role[Peer(n)] # "active" /\ epoch[Peer(n)] >= epoch[n]
        /\ pc[n] = "fence" => role[n] # "active"
        /\ (pc[n] = "fence" /\ answer[n] = "yes") =>
              /\ role[Peer(n)] # "active"
              /\ epoch[Peer(n)] >= request[n].epoch
              /\ ~ (pc[Peer(n)] = "fence" /\ answer[Peer(n)] = "yes")

\* Every row on its way to a store is one its envelope allows: those proposed
\* to the peer, prepared, being committed, and waiting in the outbox.
AllowedInv ==
    /\ ComparedAndSwapped
    /\ \A m \in net : m.kind # "fence" => Allowed(m.row)
    /\ \A n \in Node :
         /\ \A r \in prepared[n] \cup outbox[n] \cup todo[n] : Allowed(r)
         /\ pc[n] \notin {"idle", "recover", "fence"} => Allowed(Job(n))

\* The generation a mutation was given is not overtaken while it is prepared.
GenerationInv ==
    \A n \in Node : pc[n] = "prepare" => Job(n).generation >= generation[n]

=============================================================================
