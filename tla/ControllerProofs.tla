-------------------------- MODULE ControllerProofs --------------------------
(***************************************************************************)
(* Proofs about Controller, for any envelopes, bounds and node names.      *)
(***************************************************************************)
EXTENDS Controller, TLAPS

LEMMA PeerIsOther ==
    ASSUME NEW n \in Node
    PROVE  /\ Peer(n) \in Node
           /\ Peer(n) # n
           /\ Peer(Peer(n)) = n
           /\ \A m \in Node : m = n \/ m = Peer(n)
BY NodeAssumption DEF Peer

\* What the store's helpers and the call helpers do to the types.
LEMMA NewRowType ==
    ASSUME TypeOK, NEW n \in Node, NEW e \in Envelope
    PROVE  NewRow(n, e) \in Row
BY DEF TypeOK, NewRow, Raise, Row

LEMMA PostType ==
    ASSUME TypeOK, NEW n \in Node, NEW where, NEW r, Post(n, where, r),
           where \in {"prepare", "abort", "commit", "recover-prepare",
                      "recover-commit", "fence"},
           r \in Request, HasRow(r), r.src = n,
           where \in {"prepare", "recover-prepare"} => r.kind = "prepare",
           where \in {"commit", "recover-commit"} => r.kind = "commit",
           where = "abort" => r.kind = "abort",
           where = "fence" => r.kind = "fence"
    PROVE  /\ net' \subseteq Request
           /\ \A m \in net' : HasRow(m)
           /\ pc' \in [Node -> {"idle", "prepare", "abort", "commit", "recover",
                                "recover-prepare", "recover-commit", "fence"}]
           /\ request' \in [Node -> Request \cup {NoRequest}]
           /\ \A k \in Node : CallOK(k)'
           /\ answer' \in [Node -> {"none", "yes", "no"}]
<1>1. /\ net' \subseteq Request
      /\ \A m \in net' : HasRow(m)
  BY DEF TypeOK, Post
<1>2. /\ pc' \in [Node -> {"idle", "prepare", "abort", "commit", "recover",
                           "recover-prepare", "recover-commit", "fence"}]
      /\ request' \in [Node -> Request \cup {NoRequest}]
      /\ answer' \in [Node -> {"none", "yes", "no"}]
  BY DEF TypeOK, Post
<1>3. ASSUME NEW k \in Node PROVE CallOK(k)'
  <2>1. CASE k = n
    BY <2>1 DEF TypeOK, Post, CallOK, HasRow
  <2>2. CASE k # n
    BY <2>2 DEF TypeOK, Post, CallOK, HasRow
  <2> QED BY <2>1, <2>2
<1> QED BY <1>1, <1>2, <1>3

LEMMA CallType ==
    ASSUME TypeOK, NEW n \in Node, NEW where, NEW kind, NEW row, NEW e \in Nat,
           Call(n, where, kind, row, e),
           where \in {"prepare", "abort", "commit", "recover-commit", "fence"},
           kind = IF where = "recover-commit" THEN "commit" ELSE where,
           IF kind = "fence" THEN row = NoRow ELSE row \in Row
    PROVE  /\ outSeq' \in [Node -> Nat]
           /\ net' \subseteq Request
           /\ \A m \in net' : HasRow(m)
           /\ pc' \in [Node -> {"idle", "prepare", "abort", "commit", "recover",
                                "recover-prepare", "recover-commit", "fence"}]
           /\ request' \in [Node -> Request \cup {NoRequest}]
           /\ \A k \in Node : CallOK(k)'
           /\ answer' \in [Node -> {"none", "yes", "no"}]
<1> DEFINE r == [kind |-> kind, src |-> n, life |-> life[n],
                 seq |-> outSeq[n] + 1, row |-> row, epoch |-> e]
<1>1. r \in Request /\ HasRow(r) /\ r.src = n /\ r.kind = kind
  BY DEF TypeOK, Request, HasRow
<1>2. Post(n, where, r)
  BY DEF Call
<1>3. outSeq' \in [Node -> Nat]
  BY DEF Call, TypeOK
<1> HIDE DEF r
<1> QED BY <1>1, <1>2, <1>3, PostType

LEMMA LeaveType ==
    ASSUME TypeOK, NEW n \in Node, NEW where \in {"idle", "recover"}, Leave(n, where)
    PROVE  /\ pc' \in [Node -> {"idle", "prepare", "abort", "commit", "recover",
                                "recover-prepare", "recover-commit", "fence"}]
           /\ request' \in [Node -> Request \cup {NoRequest}]
           /\ \A k \in Node : CallOK(k)'
           /\ answer' \in [Node -> {"none", "yes", "no"}]
BY DEF TypeOK, Leave, CallOK, HasRow

LEMMA ReplyType ==
    ASSUME TypeOK, NEW m, NEW result \in BOOLEAN, Reply(m, result),
           UNCHANGED <<pc, request>>
    PROVE  /\ pc' \in [Node -> {"idle", "prepare", "abort", "commit", "recover",
                                "recover-prepare", "recover-commit", "fence"}]
           /\ request' \in [Node -> Request \cup {NoRequest}]
           /\ \A k \in Node : CallOK(k)'
           /\ answer' \in [Node -> {"none", "yes", "no"}]
BY DEF TypeOK, Reply, CallOK, HasRow

\* Rows that the updates write into the operations table and the outbox.
LEMMA RecordOperationType ==
    ASSUME TypeOK, NEW n \in Node, NEW row \in Row, NEW s \in {"pending", "committed"},
           RecordOperation(n, row, s)
    PROVE  ops' \in [Node -> SUBSET OpRow]
BY DEF TypeOK, RecordOperation, Row, OpRow

LEMMA ApplyPayloadType ==
    ASSUME TypeOK, NEW n \in Node, NEW row \in Row, ApplyPayload(n, row)
    PROVE  policies' \in [Node -> SUBSET (Nat \X Envelope)]
BY DEF TypeOK, ApplyPayload, Row

LEMMA MarkReplicatedType ==
    ASSUME TypeOK, NEW n \in Node, NEW o, MarkReplicated(n, o)
    PROVE  /\ ops' \in [Node -> SUBSET OpRow]
           /\ outbox' \in [Node -> SUBSET Row]
<1>1. \A r \in OpRow : [r EXCEPT !.state = "committed"] \in OpRow
  BY DEF OpRow
<1>2. ops' \in [Node -> SUBSET OpRow]
  BY <1>1 DEF TypeOK, MarkReplicated
<1>3. outbox' \in [Node -> SUBSET Row]
  BY DEF TypeOK, MarkReplicated
<1> QED BY <1>2, <1>3

\* Every table, queue and process variable keeps its type, and a blocked process
\* waits for a request of its own kind: the state the handlers of api.py share.
THEOREM TypeCorrect == Spec => []TypeOK
<1>1. Init => TypeOK
  BY BoundAssumption DEF Init, TypeOK, CallOK
<1>2. ASSUME TypeOK, [Next]_vars PROVE TypeOK'
  <2> USE <1>2
  <2>1. ASSUME NEW n \in Node, NEW e \in Envelope, Submit(n, e) PROVE TypeOK'
    <3>1. NewRow(n, e) \in Row BY NewRowType
    <3>2. Call(n, "prepare", "prepare", NewRow(n, e), 0) BY <2>1 DEF Submit
    <3> HIDE DEF NewRow
    <3> QED BY <2>1, <3>1, <3>2, CallType DEF Submit, TypeOK
  <2>2. ASSUME NEW n \in Node, NEW e \in Envelope, AnswerAgain(n, e) PROVE TypeOK'
    BY <2>2 DEF AnswerAgain, TypeOK, CallOK, store, process
  <2>3. ASSUME NEW n \in Node, NEW e \in InitEpoch .. MaxEpoch, Promote(n, e) PROVE TypeOK'
    <3>1. e \in Nat BY BoundAssumption
    <3> QED BY <2>3, <3>1, CallType DEF Promote, TypeOK
  <2>4. ASSUME NEW n \in Node, LocalCommit(n) PROVE TypeOK'
    <3>1. Job(n) \in Row BY <2>4 DEF LocalCommit, TypeOK, CallOK, HasRow, Job
    <3>2. ApplyPayload(n, Job(n)) /\ RecordOperation(n, Job(n), "pending")
          /\ Call(n, "commit", "commit", Job(n), 0)
      BY <2>4 DEF LocalCommit
    <3>3. Job(n).generation \in Nat BY <3>1 DEF Row
    <3> HIDE DEF Job
    <3>4. outbox' \in [Node -> SUBSET Row] /\ generation' \in [Node -> Nat]
      BY <2>4, <3>1, <3>3 DEF LocalCommit, TypeOK
    <3> QED BY <2>4, <3>1, <3>2, <3>4, CallType, ApplyPayloadType, RecordOperationType
            DEF LocalCommit, TypeOK
  <2>5. ASSUME NEW n \in Node, GiveUp(n) PROVE TypeOK'
    <3>1. Job(n) \in Row BY <2>5 DEF GiveUp, TypeOK, CallOK, HasRow, Job
    <3> QED BY <2>5, <3>1, CallType DEF GiveUp, TypeOK
  <2>6. ASSUME NEW n \in Node, AbortDone(n) PROVE TypeOK'
    BY <2>6, LeaveType DEF AbortDone, TypeOK
  <2>7. ASSUME NEW n \in Node, CommitAcked(n) PROVE TypeOK'
    <3>1. Job(n) \in Row BY <2>7 DEF CommitAcked, TypeOK, CallOK, HasRow, Job
    <3>2. Job(n).env \in Envelope BY <3>1 DEF Row
    <3> QED BY <2>7, <3>2, LeaveType, MarkReplicatedType DEF CommitAcked, TypeOK
  <2>8. ASSUME NEW n \in Node, CommitUnanswered(n) PROVE TypeOK'
    BY <2>8, LeaveType DEF CommitUnanswered, TypeOK
  <2>9. ASSUME NEW n \in Node, Restart(n) PROVE TypeOK'
    BY <2>9, LeaveType DEF Restart, TypeOK, store
  <2>10. ASSUME NEW n \in Node, RecoverNext(n) PROVE TypeOK'
    <3>1. PICK r \in todo[n] : Post(n, "recover-prepare",
             [kind |-> "prepare", src |-> n, life |-> life[n],
              seq |-> r.seq, row |-> r, epoch |-> 0])
          /\ todo' = [todo EXCEPT ![n] = @ \ {r}]
      BY <2>10 DEF RecoverNext
    <3>2. r \in Row BY DEF TypeOK
    <3> DEFINE q == [kind |-> "prepare", src |-> n, life |-> life[n],
                     seq |-> r.seq, row |-> r, epoch |-> 0]
    <3>3. q \in Request /\ HasRow(q) /\ q.src = n /\ q.kind = "prepare"
      BY <3>2 DEF TypeOK, Request, HasRow, Row
    <3>4. Post(n, "recover-prepare", q) BY <3>1
    <3> HIDE DEF q
    <3> QED BY <2>10, <3>1, <3>3, <3>4, PostType DEF RecoverNext, TypeOK, store
  <2>11. ASSUME NEW n \in Node, RecoverCommit(n) PROVE TypeOK'
    <3>1. Job(n) \in Row BY <2>11 DEF RecoverCommit, TypeOK, CallOK, HasRow, Job
    <3> QED BY <2>11, <3>1, CallType DEF RecoverCommit, TypeOK
  <2>12. ASSUME NEW n \in Node, RecoverAcked(n) PROVE TypeOK'
    BY <2>12, LeaveType, MarkReplicatedType DEF RecoverAcked, TypeOK
  <2>13. ASSUME NEW n \in Node, RecoverFailed(n) PROVE TypeOK'
    BY <2>13, LeaveType DEF RecoverFailed, TypeOK, store
  <2>14. ASSUME NEW n \in Node, RecoverDone(n) PROVE TypeOK'
    BY <2>14, LeaveType DEF RecoverDone, TypeOK, store
  <2>15. ASSUME NEW n \in Node, Promoted(n) PROVE TypeOK'
    <3>1. request[n].epoch \in Nat BY <2>15 DEF Promoted, TypeOK, CallOK, Request
    <3> QED BY <2>15, <3>1, LeaveType DEF Promoted, TypeOK
  <2>16. ASSUME NEW n \in Node, PromotionFails(n) PROVE TypeOK'
    BY <2>16, LeaveType DEF PromotionFails, TypeOK, store
  <2>17. ASSUME NEW n \in Node, NEW m \in net, Handles(n, m) PROVE TypeOK'
    <3>1. m \in Request /\ m.seq \in Nat /\ m.epoch \in Nat /\ HasRow(m)
      BY DEF TypeOK, Request
    <3>2. CASE PrepareKnown(n, m)
      BY <3>2, ReplyType DEF PrepareKnown, Arrives, TypeOK, store
    <3>3. CASE PrepareNew(n, m)
      <4>1. m.row \in Row /\ m.row.env \in Envelope
        BY <3>1, <3>3 DEF PrepareNew, Arrives, HasRow, Row
      <4>2. /\ net' = net \ {m}
            /\ replSeen' = [replSeen EXCEPT ![n] = @ \cup {m.seq}]
            /\ seen' = [seen EXCEPT ![n] = @ \cup {m.row.env}]
            /\ prepared' = [prepared EXCEPT ![n] = @ \cup {m.row}]
            /\ Reply(m, TRUE)
            /\ UNCHANGED <<role, epoch, generation, outSeq, ops, outbox, policies,
                           pc, request, todo, life, acked>>
        BY <3>3 DEF PrepareNew, Arrives
      <4>3. /\ net' \subseteq net
            /\ replSeen' \in [Node -> SUBSET Nat]
            /\ seen' \in [Node -> SUBSET Envelope]
            /\ prepared' \in [Node -> SUBSET Row]
        BY <3>1, <4>1, <4>2 DEF TypeOK
      <4> QED BY <4>2, <4>3, ReplyType DEF TypeOK
    <3>4. CASE PrepareRefused(n, m)
      BY <3>4, ReplyType DEF PrepareRefused, Arrives, TypeOK, store
    <3>5. CASE ControlStale(n, m)
      BY <3>5, ReplyType DEF ControlStale, Arrives, TypeOK, store
    <3>6. CASE ControlCrash(n, m)
      BY <3>1, <3>6, LeaveType DEF ControlCrash, ControlAccepted, Arrives, TypeOK
    <3>7. CASE CommitApplies(n, m)
      <4>1. PICK p \in prepared[n] :
               /\ role' = [role EXCEPT ![n] = IF p.epoch > epoch[n] THEN "follower" ELSE @]
               /\ epoch' = [epoch EXCEPT ![n] = Later(@, p.epoch)]
               /\ ApplyPayload(n, p)
               /\ RecordOperation(n, p, "committed")
               /\ prepared' = [prepared EXCEPT ![n] = @ \ {p}]
               /\ generation' = [generation EXCEPT ![n] = Later(@, p.generation)]
        BY <3>7 DEF CommitApplies
      <4>2. p \in Row /\ p.epoch \in Nat /\ p.generation \in Nat BY DEF TypeOK, Row
      <4>3. /\ role' \in [Node -> {"active", "standby", "follower"}]
            /\ epoch' \in [Node -> Nat]
            /\ generation' \in [Node -> Nat]
            /\ prepared' \in [Node -> SUBSET Row]
        BY <4>1, <4>2 DEF TypeOK, Later
      <4>4. ops' \in [Node -> SUBSET OpRow] /\ policies' \in [Node -> SUBSET (Nat \X Envelope)]
        BY <4>1, <4>2, ApplyPayloadType, RecordOperationType
      <4>5. /\ net' \subseteq net
            /\ replSeen' \in [Node -> SUBSET Nat]
            /\ Reply(m, TRUE)
            /\ UNCHANGED <<seen, outSeq, outbox, pc, request, todo, life, acked>>
        <5>1. /\ net' = net \ {m}
              /\ replSeen' = [replSeen EXCEPT ![n] = @ \cup {m.seq}]
              /\ Reply(m, TRUE)
              /\ UNCHANGED <<seen, outSeq, outbox, pc, request, todo, life, acked>>
          BY <3>7 DEF CommitApplies, ControlAccepted, Arrives
        <5> QED BY <3>1, <5>1 DEF TypeOK
      <4> QED BY <4>3, <4>4, <4>5, ReplyType DEF TypeOK
    <3>8. CASE CommitKnown(n, m)
      BY <3>1, <3>8, ReplyType DEF CommitKnown, Committed, ControlAccepted, Arrives, TypeOK
    <3>9. CASE Abort(n, m)
      <4>1. Reply(m, TRUE) /\ UNCHANGED <<pc, request>> BY <3>9 DEF Abort
      <4>2. /\ prepared' \in [Node -> SUBSET Row]
            /\ seen' \in [Node -> SUBSET Envelope]
            /\ replSeen' \in [Node -> SUBSET Nat]
            /\ net' \subseteq net
        BY <3>1, <3>9 DEF Abort, ControlAccepted, Arrives, TypeOK
      <4> QED BY <3>9, <4>1, <4>2, ReplyType DEF Abort, TypeOK
    <3>10. CASE Fenced(n, m)
      BY <3>1, <3>10, ReplyType DEF Fenced, ControlAccepted, Arrives, TypeOK
    <3>11. CASE FenceRefused(n, m)
      BY <3>1, <3>11, ReplyType DEF FenceRefused, ControlAccepted, Arrives, TypeOK
    <3> QED BY <2>17, <3>2, <3>3, <3>4, <3>5, <3>6, <3>7, <3>8, <3>9, <3>10, <3>11
            DEF Handles
  <2>18. CASE UNCHANGED vars
    BY <2>18 DEF vars, TypeOK, CallOK
  <2>19. ASSUME NEW n \in Node, NEW e \in Envelope, Refuse(n, e) PROVE TypeOK'
    BY <2>18, <2>19 DEF Refuse
  <2> QED BY <2>1, <2>2, <2>3, <2>4, <2>5, <2>6, <2>7, <2>8, <2>9, <2>10, <2>11,
             <2>12, <2>13, <2>14, <2>15, <2>16, <2>17, <2>18, <2>19
          DEF Next, Asked, Proceeds
<1> QED BY <1>1, <1>2, PTL DEF Spec

-----------------------------------------------------------------------------
(* Failover *)

\* A step that leaves roles, epochs and promotions in progress alone.
OffFailover ==
    /\ UNCHANGED <<role, epoch>>
    /\ \A k \in Node :
         pc'[k] = "fence" => /\ pc[k] = "fence"
                             /\ request'[k] = request[k]
                             /\ answer'[k] = "yes" => answer[k] = "yes"

LEMMA OffFailoverKeeps ==
    ASSUME FailoverInv, OffFailover
    PROVE  FailoverInv'
BY PeerIsOther DEF FailoverInv, OffFailover

\* An answer to another kind of request is no answer to a fence.
LEMMA ReplyOffFence ==
    ASSUME TypeOK, NEW m, m.kind # "fence", NEW result, Reply(m, result),
           UNCHANGED <<role, epoch, pc, request>>
    PROVE  OffFailover
<1> SUFFICES ASSUME NEW k \in Node, pc[k] = "fence", answer'[k] = "yes"
             PROVE  answer[k] = "yes"
  BY DEF OffFailover
<1>1. request[k] # m
  BY DEF TypeOK, CallOK
<1> QED BY <1>1 DEF Reply, TypeOK

LEMMA FalseOffFence ==
    ASSUME TypeOK, NEW m, Reply(m, FALSE), UNCHANGED <<role, epoch, pc, request>>
    PROVE  OffFailover
BY DEF OffFailover, Reply, TypeOK

LEMMA PostOffFailover ==
    ASSUME TypeOK, NEW n \in Node, NEW where, NEW r, Post(n, where, r),
           where # "fence", UNCHANGED <<role, epoch>>
    PROVE  OffFailover
BY DEF Post, OffFailover, TypeOK

LEMMA LeaveOffFailover ==
    ASSUME TypeOK, NEW n \in Node, NEW where, Leave(n, where),
           where # "fence", UNCHANGED <<role, epoch>>
    PROVE  OffFailover
BY DEF Leave, OffFailover, TypeOK

\* The steps that touch neither roles, epochs nor promotions.
LEMMA MostStepsOffFailover ==
    ASSUME TypeOK, [Next]_vars,
           ~ \E n \in Node :
               \/ Promoted(n)
               \/ \E e \in InitEpoch .. MaxEpoch : Promote(n, e)
               \/ \E m \in net : Fenced(n, m) \/ CommitApplies(n, m)
    PROVE  OffFailover
<1>1. ASSUME NEW n \in Node, NEW e \in Envelope,
             Submit(n, e) \/ AnswerAgain(n, e) \/ Refuse(n, e)
      PROVE  OffFailover
  <2>1. CASE Submit(n, e)
    BY <2>1, PostOffFailover DEF Submit, Call
  <2>2. CASE AnswerAgain(n, e) \/ Refuse(n, e)
    BY <2>2 DEF AnswerAgain, Refuse, OffFailover, store, process, vars
  <2> QED BY <1>1, <2>1, <2>2
<1>2. ASSUME NEW n \in Node, LocalCommit(n) \/ GiveUp(n) \/ RecoverNext(n) \/ RecoverCommit(n)
      PROVE  OffFailover
  BY <1>2, PostOffFailover
     DEF LocalCommit, GiveUp, RecoverNext, RecoverCommit, Call, store
<1>3. ASSUME NEW n \in Node,
             \/ AbortDone(n) \/ CommitAcked(n) \/ CommitUnanswered(n)
             \/ RecoverAcked(n) \/ RecoverFailed(n) \/ RecoverDone(n)
             \/ PromotionFails(n) \/ Restart(n)
      PROVE  OffFailover
  BY <1>3, LeaveOffFailover
     DEF AbortDone, CommitAcked, CommitUnanswered, RecoverAcked, RecoverFailed,
         RecoverDone, PromotionFails, Restart, store
<1>4. ASSUME NEW n \in Node, NEW m \in net, Handles(n, m)
      PROVE  OffFailover
  <2>1. CASE PrepareKnown(n, m) \/ PrepareNew(n, m) \/ PrepareRefused(n, m)
    BY <2>1, ReplyOffFence
       DEF PrepareKnown, PrepareNew, PrepareRefused, Arrives, store
  <2>2. CASE ControlStale(n, m) \/ FenceRefused(n, m)
    BY <2>2, FalseOffFence DEF ControlStale, FenceRefused, store
  <2>3. CASE ControlCrash(n, m)
    BY <2>3 DEF ControlCrash, Leave, OffFailover, TypeOK
  <2>4. CASE CommitKnown(n, m) \/ Abort(n, m)
    BY <2>4, ReplyOffFence DEF CommitKnown, Abort, ControlAccepted, Arrives
  <2> QED BY <1>4, <2>1, <2>2, <2>3, <2>4 DEF Handles
<1>5. CASE UNCHANGED vars
  BY <1>5 DEF vars, OffFailover
<1> QED BY <1>1, <1>2, <1>3, <1>4, <1>5 DEF Next, Asked, Proceeds

LEMMA FailoverStep ==
    ASSUME TypeOK, TypeOK', FailoverInv, [Next]_vars
    PROVE  FailoverInv'
<1>1. ASSUME NEW n \in Node, NEW e \in InitEpoch .. MaxEpoch, Promote(n, e)
      PROVE  FailoverInv'
  BY <1>1, PeerIsOther DEF Promote, Call, Post, FailoverInv, TypeOK
<1>2. ASSUME NEW n \in Node, Promoted(n)
      PROVE  FailoverInv'
  <2>1. answer[n] = "yes" BY <1>2 DEF Promoted, Gets
  <2>2. /\ role[Peer(n)] # "active"
        /\ epoch[Peer(n)] >= request[n].epoch
        /\ ~ (pc[Peer(n)] = "fence" /\ answer[Peer(n)] = "yes")
    BY <1>2, <2>1 DEF Promoted, FailoverInv
  <2> QED BY <1>2, <2>2, PeerIsOther DEF Promoted, Leave, FailoverInv, TypeOK
<1>3. ASSUME NEW n \in Node, NEW m \in net, Fenced(n, m)
      PROVE  FailoverInv'
  <2>1. /\ pc[n] = "idle"
        /\ m.src = Peer(n)
        /\ m.epoch >= epoch[n]
        /\ role' = [role EXCEPT ![n] = "follower"]
        /\ epoch' = [epoch EXCEPT ![n] = m.epoch]
        /\ UNCHANGED <<pc, request>>
        /\ m.epoch \in Nat
        /\ epoch[n] \in Nat
    BY <1>3 DEF Fenced, Behind, ControlAccepted, Arrives, TypeOK, Request
  <2>2. \A k \in Node : answer'[k] = "yes" =>
           answer[k] = "yes" \/ (k = Peer(n) /\ request[k] = m)
    BY <1>3, <2>1 DEF Fenced, Reply, TypeOK
  <2>3. \A k \in Node : role'[k] = "active" =>
           k = Peer(n) /\ role[k] = "active" /\ role'[n] # "active"
           /\ epoch'[n] >= epoch'[k]
    <3> SUFFICES ASSUME NEW k \in Node, role'[k] = "active"
                 PROVE  k = Peer(n) /\ role[k] = "active" /\ role'[n] # "active"
                        /\ epoch'[n] >= epoch'[k]
      OBVIOUS
    <3>1. k = Peer(n) /\ role[k] = "active" /\ role'[n] # "active"
      BY <2>1, PeerIsOther DEF TypeOK
    <3>2. epoch[n] >= epoch[k] BY <3>1, PeerIsOther DEF FailoverInv
    <3>3. epoch'[n] = m.epoch /\ epoch'[k] = epoch[k] /\ epoch[k] \in Nat
      BY <2>1, <3>1, PeerIsOther DEF TypeOK
    <3> QED BY <2>1, <3>1, <3>2, <3>3
  <2>4. \A k \in Node : pc'[k] = "fence" => role'[k] # "active"
    BY <2>1, PeerIsOther DEF FailoverInv, TypeOK
  <2>5. \A k \in Node : pc'[k] = "fence" => k = Peer(n) /\ Peer(k) = n
    BY <2>1, PeerIsOther
  <2>6. \A k \in Node : (pc'[k] = "fence" /\ answer'[k] = "yes") =>
           role'[Peer(k)] # "active" /\ epoch'[Peer(k)] >= request'[k].epoch
    <3> SUFFICES ASSUME NEW k \in Node, pc'[k] = "fence", answer'[k] = "yes"
                 PROVE  role'[n] # "active" /\ epoch'[n] >= request'[k].epoch
      BY <2>5
    <3>1. role'[n] = "follower" /\ epoch'[n] = m.epoch BY <2>1 DEF TypeOK
    <3>2. CASE request[k] = m
      BY <2>1, <3>1, <3>2
    <3>3. CASE answer[k] = "yes"
      <4>1. epoch[n] >= request[k].epoch
        BY <2>1, <2>5, <3>3 DEF FailoverInv
      <4>2. request[k].epoch \in Nat
        BY <2>1 DEF TypeOK, CallOK, Request
      <4> QED BY <2>1, <3>1, <4>1, <4>2
    <3> QED BY <2>2, <3>2, <3>3
  <2> QED BY <2>1, <2>3, <2>4, <2>5, <2>6, PeerIsOther DEF FailoverInv
<1>4. ASSUME NEW n \in Node, NEW m \in net, CommitApplies(n, m)
      PROVE  FailoverInv'
  <2>1. PICK p \in prepared[n] :
           /\ p.epoch >= epoch[n]
           /\ role' = [role EXCEPT ![n] = IF p.epoch > epoch[n] THEN "follower" ELSE @]
           /\ epoch' = [epoch EXCEPT ![n] = Later(@, p.epoch)]
    BY <1>4 DEF CommitApplies, Applicable
  <2>2. pc[n] = "idle" /\ UNCHANGED <<pc, request>>
    BY <1>4 DEF CommitApplies, ControlAccepted, Arrives
  <2>3. \A k \in Node : pc[k] = "fence" /\ answer'[k] = "yes" => answer[k] = "yes"
    <3>1. Reply(m, TRUE) /\ m \in net /\ m.kind = "commit"
      BY <1>4 DEF CommitApplies, ControlAccepted, Arrives
    <3>2. \A k \in Node : pc[k] = "fence" => request[k] # m
      BY <3>1 DEF TypeOK, CallOK
    <3> QED BY <3>1, <3>2 DEF Reply, TypeOK
  <2>4. p.epoch \in Nat /\ \A k \in Node : epoch[k] \in Nat
    BY DEF TypeOK, Row
  <2>5. \A k \in Node : pc[k] = "fence" => request[k].epoch \in Nat
    BY DEF TypeOK, CallOK, Request
  <2>6. epoch' = [epoch EXCEPT ![n] = p.epoch]
    <3>1. Later(epoch[n], p.epoch) = p.epoch BY <2>1, <2>4 DEF Later
    <3> QED BY <2>1, <3>1
  <2> QED BY <2>1, <2>2, <2>3, <2>4, <2>5, <2>6, PeerIsOther DEF FailoverInv, TypeOK
<1> QED BY <1>1, <1>2, <1>3, <1>4, OffFailoverKeeps, MostStepsOffFailover

LEMMA FailoverInvariant == Spec => []FailoverInv
<1>1. Init => FailoverInv
  BY BoundAssumption, PeerIsOther DEF Init, FailoverInv
<1>2. TypeOK /\ TypeOK' /\ FailoverInv /\ [Next]_vars => FailoverInv'
  BY FailoverStep
<1> QED BY <1>1, <1>2, TypeCorrect, PTL DEF Spec

\* Promotion fences the old active before the standby changes role: however the
\* fence's answer is lost or late and whoever restarts, one controller at most
\* is active.
THEOREM NeverTwoActive == Spec => []OneActive
<1>1. FailoverInv => OneActive BY DEF FailoverInv, OneActive
<1> QED BY <1>1, FailoverInvariant, PTL


-----------------------------------------------------------------------------
(* Replication *)

\* Only two steps record an operation; every other step keeps what the stores
\* hold, and no step forgets.
LEMMA RecordHolds ==
    ASSUME TypeOK, NEW n \in Node, NEW row \in Row, NEW s, RecordOperation(n, row, s)
    PROVE  \A k \in Node : \A o : Holds(k, o)' <=> Holds(k, o) \/ (k = n /\ o = row.env.op)
<1> DEFINE new == [env |-> row.env, epoch |-> row.epoch,
                   generation |-> row.generation, state |-> s]
<1>1. new.env = row.env OBVIOUS
<1>2. ops'[n] = ops[n] \cup {new} /\ \A k \in Node : k # n => ops'[k] = ops[k]
  BY DEF RecordOperation, TypeOK
<1> HIDE DEF new
<1> QED BY <1>1, <1>2 DEF Holds

LEMMA MarkHolds ==
    ASSUME TypeOK, NEW n \in Node, NEW o, MarkReplicated(n, o)
    PROVE  /\ \A k \in Node : \A q : Holds(k, q)' <=> Holds(k, q)
           /\ \A k \in Node : \A q :
                 (\E r \in ops'[k] : r.env.op = q /\ r.state = "committed")
                    => Committed(k, q) \/ (k = n /\ q = o)
           /\ outbox'[n] \subseteq outbox[n]
           /\ \A k \in Node : k # n => outbox'[k] = outbox[k]
<1>1. \A r \in OpRow : [r EXCEPT !.state = "committed"].env = r.env
  BY DEF OpRow
<1>2. \A k \in Node : k # n => ops'[k] = ops[k] /\ outbox'[k] = outbox[k]
  BY DEF MarkReplicated, TypeOK
<1>3. ops'[n] = {IF r.env.op = o THEN [r EXCEPT !.state = "committed"] ELSE r : r \in ops[n]}
  BY DEF MarkReplicated, TypeOK
<1>4. ops[n] \subseteq OpRow BY DEF TypeOK
<1>5. \A q : Holds(n, q)' <=> Holds(n, q)
  <2>1. \A r \in ops[n] : \E t \in ops'[n] : t.env = r.env
    BY <1>1, <1>3, <1>4
  <2>2. \A t \in ops'[n] : \E r \in ops[n] : t.env = r.env
    BY <1>1, <1>3, <1>4
  <2> QED BY <2>1, <2>2 DEF Holds
<1>6. \A q : (\E r \in ops'[n] : r.env.op = q /\ r.state = "committed")
                => Committed(n, q) \/ q = o
  BY <1>1, <1>3, <1>4 DEF Committed
<1>7. outbox'[n] \subseteq outbox[n]
  BY DEF MarkReplicated, TypeOK
<1>8. \A k \in Node : \A q : Holds(k, q)' <=> Holds(k, q)
  BY <1>2, <1>5 DEF Holds
<1>9. \A k \in Node : \A q :
         (\E r \in ops'[k] : r.env.op = q /\ r.state = "committed")
            => Committed(k, q) \/ (k = n /\ q = o)
  BY <1>2, <1>6 DEF Committed
<1> QED BY <1>2, <1>7, <1>8, <1>9

\* The replication invariant in the shape the steps use it.
LEMMA CommittedMeans ==
    CommittedOnBoth <=> \A n \in Node : \A o : Committed(n, o) => Holds(Peer(n), o)
BY DEF CommittedOnBoth, Committed

\* A step that records nothing, asks for no commit and answers no commit: it
\* may only drop requests, calls and outbox rows.
OffReplication ==
    /\ UNCHANGED <<ops, acked>>
    /\ \A m \in net' : m.kind = "commit" => m \in net
    /\ \A n \in Node :
         /\ pc'[n] \in {"commit", "recover-prepare", "recover-commit"} =>
               /\ pc'[n] = pc[n]
               /\ request'[n] = request[n]
               /\ (pc[n] # "recover-prepare" /\ answer'[n] = "yes") => answer[n] = "yes"
         /\ outbox'[n] \cup todo'[n] \subseteq outbox[n] \cup todo[n]

LEMMA OffReplicationKeeps ==
    ASSUME ReplicationInv, OffReplication
    PROVE  ReplicationInv'
BY DEF ReplicationInv, OffReplication, CommittedOnBoth, AckedOnBoth, Holds, Job

LEMMA ReplyOffReplication ==
    ASSUME TypeOK, NEW m, NEW result, Reply(m, result),
           m.kind # "commit" \/ result = FALSE,
           UNCHANGED <<ops, acked, pc, request, outbox, todo>>, net' \subseteq net
    PROVE  OffReplication
<1>1. ASSUME NEW n \in Node, pc[n] \in {"commit", "recover-commit"}, answer'[n] = "yes"
      PROVE  answer[n] = "yes"
  <2>1. CASE m.kind # "commit"
    <3>1. request[n] # m BY <1>1, <2>1 DEF TypeOK, CallOK
    <3> QED BY <1>1, <3>1 DEF Reply, TypeOK
  <2>2. CASE result = FALSE
    BY <1>1, <2>2 DEF Reply, TypeOK
  <2> QED BY <2>1, <2>2
<1> QED BY <1>1 DEF OffReplication

LEMMA LeaveOffReplication ==
    ASSUME TypeOK, NEW n \in Node, NEW where \in {"idle", "recover"}, Leave(n, where),
           UNCHANGED <<ops, acked, outbox>>, net' \subseteq net,
           todo' \in {todo, [todo EXCEPT ![n] = outbox[n]]}
    PROVE  OffReplication
BY DEF OffReplication, Leave, TypeOK

LEMMA CallOffReplication ==
    ASSUME TypeOK, NEW n \in Node, NEW where \in {"prepare", "abort", "fence"},
           NEW row, NEW e, Call(n, where, where, row, e),
           UNCHANGED <<ops, acked, outbox, todo>>
    PROVE  OffReplication
BY DEF OffReplication, Call, Post, TypeOK

\* The steps of replication proper.
Replicates(n) ==
    \/ LocalCommit(n) \/ CommitAcked(n)
    \/ RecoverNext(n) \/ RecoverCommit(n) \/ RecoverAcked(n)
    \/ \E e \in Envelope : AnswerAgain(n, e)
    \/ \E m \in net : CommitApplies(n, m) \/ CommitKnown(n, m)

LEMMA MostStepsOffReplication ==
    ASSUME TypeOK, [Next]_vars, ~ \E n \in Node : Replicates(n)
    PROVE  OffReplication
<1>1. ASSUME NEW n \in Node, NEW e \in Envelope, Submit(n, e) \/ Refuse(n, e)
      PROVE  OffReplication
  <2>1. CASE Submit(n, e) BY <2>1, CallOffReplication DEF Submit
  <2>2. CASE Refuse(n, e) BY <2>2 DEF Refuse, vars, OffReplication
  <2> QED BY <1>1, <2>1, <2>2
<1>2. ASSUME NEW n \in Node, NEW e \in InitEpoch .. MaxEpoch, Promote(n, e)
      PROVE  OffReplication
  BY <1>2, CallOffReplication DEF Promote
<1>3. ASSUME NEW n \in Node, GiveUp(n)
      PROVE  OffReplication
  BY <1>3, CallOffReplication DEF GiveUp
<1>4. ASSUME NEW n \in Node,
             \/ AbortDone(n) \/ CommitUnanswered(n) \/ Promoted(n) \/ PromotionFails(n)
             \/ RecoverFailed(n) \/ RecoverDone(n) \/ Restart(n)
      PROVE  OffReplication
  BY <1>4, LeaveOffReplication
     DEF AbortDone, CommitUnanswered, Promoted, PromotionFails, RecoverFailed,
         RecoverDone, Restart, store
<1>5. ASSUME NEW n \in Node, NEW m \in net, Handles(n, m), ~ Replicates(n)
      PROVE  OffReplication
  <2>1. CASE PrepareKnown(n, m) \/ PrepareNew(n, m) \/ PrepareRefused(n, m)
    BY <2>1, ReplyOffReplication
       DEF PrepareKnown, PrepareNew, PrepareRefused, Arrives, store
  <2>2. CASE ControlStale(n, m) \/ FenceRefused(n, m)
    BY <2>2, ReplyOffReplication
       DEF ControlStale, FenceRefused, ControlAccepted, Arrives, store
  <2>3. CASE ControlCrash(n, m)
    BY <2>3, LeaveOffReplication DEF ControlCrash, ControlAccepted, Arrives
  <2>4. CASE Abort(n, m) \/ Fenced(n, m)
    BY <2>4, ReplyOffReplication DEF Abort, Fenced, ControlAccepted, Arrives
  <2> QED BY <1>5, <2>1, <2>2, <2>3, <2>4 DEF Handles, Replicates
<1>6. CASE UNCHANGED vars
  BY <1>6 DEF vars, OffReplication
<1> QED BY <1>1, <1>2, <1>3, <1>4, <1>5, <1>6 DEF Next, Asked, Proceeds, Replicates


LEMMA ReplicationStep ==
    ASSUME TypeOK, TypeOK', ReplicationInv, [Next]_vars
    PROVE  ReplicationInv'
<1>1. ASSUME NEW n \in Node, LocalCommit(n) PROVE ReplicationInv'
  <2>1. Job(n) \in Row BY <1>1 DEF LocalCommit, TypeOK, CallOK, HasRow, Job
  <2>2. RecordOperation(n, Job(n), "pending") BY <1>1 DEF LocalCommit
  <2>3. \A k \in Node : \A o : Holds(k, o)' <=> Holds(k, o) \/ (k = n /\ o = Job(n).env.op)
    BY <2>1, <2>2, RecordHolds
  <2>4. \A k \in Node : \A r \in ops'[k] : r.state = "committed" => r \in ops[k]
    BY <2>2 DEF RecordOperation, TypeOK
  <2>5. CommittedOnBoth' /\ AckedOnBoth'
    BY <1>1, <2>3, <2>4, PeerIsOther
       DEF ReplicationInv, CommittedOnBoth, AckedOnBoth, LocalCommit
  <2> DEFINE q == [kind |-> "commit", src |-> n, life |-> life[n],
                   seq |-> outSeq[n] + 1, row |-> Job(n), epoch |-> 0]
  <2>6. Post(n, "commit", q) BY <1>1 DEF LocalCommit, Call
  <2>7. q.row = Job(n) /\ q.src = n OBVIOUS
  <2> HIDE DEF q
  <2>8. ASSUME NEW m \in net', m.kind = "commit" PROVE Holds(m.src, m.row.env.op)'
    <3>1. CASE m = q BY <2>3, <2>7, <3>1
    <3>2. CASE m \in net
      <4>1. m.src \in Node BY <3>2 DEF TypeOK, Request
      <4> QED BY <2>3, <2>8, <3>2, <4>1 DEF ReplicationInv
    <3> QED BY <2>6, <3>1, <3>2 DEF Post
  <2>9. \A k \in Node : k # n =>
           /\ pc'[k] = pc[k] /\ request'[k] = request[k] /\ answer'[k] = answer[k]
           /\ outbox'[k] = outbox[k]
    BY <1>1, <2>6 DEF Post, LocalCommit, TypeOK
  <2>10. /\ pc'[n] = "commit" /\ Job(n)' = Job(n) /\ answer'[n] = "none"
         /\ outbox'[n] = outbox[n] \cup {Job(n)}
    BY <1>1, <2>6, <2>7 DEF Post, LocalCommit, TypeOK, Job
  <2>11. todo' = todo BY <1>1 DEF LocalCommit
  <2>12. \A k \in Node : k # n => Job(k)' = Job(k) BY <2>9 DEF Job
  <2> QED BY <2>3, <2>5, <2>8, <2>9, <2>10, <2>11, <2>12, PeerIsOther DEF ReplicationInv
<1>2. ASSUME NEW n \in Node,
             \/ CommitAcked(n) /\ Leave(n, "idle")
             \/ RecoverAcked(n) /\ Leave(n, "recover")
      PROVE  ReplicationInv'
  <2>1. /\ pc[n] \in {"commit", "recover-commit"}
        /\ answer[n] = "yes"
        /\ MarkReplicated(n, Job(n).env.op)
        /\ acked' \in {acked, acked \cup {Job(n).env}}
        /\ UNCHANGED <<net, todo>>
    BY <1>2 DEF CommitAcked, RecoverAcked, Gets
  <2>2. Holds(n, Job(n).env.op) /\ Holds(Peer(n), Job(n).env.op)
    BY <2>1 DEF ReplicationInv
  <2>3. /\ \A k \in Node : \A q : Holds(k, q)' <=> Holds(k, q)
        /\ \A k \in Node : \A q :
              (\E r \in ops'[k] : r.env.op = q /\ r.state = "committed")
                 => Committed(k, q) \/ (k = n /\ q = Job(n).env.op)
        /\ \A k \in Node : outbox'[k] \subseteq outbox[k]
    BY <2>1, MarkHolds
  <2>4. CommittedOnBoth'
    <3> SUFFICES ASSUME NEW k \in Node, NEW r \in ops'[k], r.state = "committed"
                 PROVE  Holds(Peer(k), r.env.op)'
      BY DEF CommittedOnBoth
    <3>1. Committed(k, r.env.op) \/ (k = n /\ r.env.op = Job(n).env.op) BY <2>3
    <3>2. Committed(k, r.env.op) => Holds(Peer(k), r.env.op)
      BY DEF Committed, ReplicationInv, CommittedOnBoth
    <3> QED BY <2>2, <2>3, <3>1, <3>2, PeerIsOther
  <2>5. AckedOnBoth'
    BY <2>1, <2>2, <2>3, PeerIsOther DEF AckedOnBoth, ReplicationInv
  <2>6. \A m \in net' : m.kind = "commit" => Holds(m.src, m.row.env.op)'
    BY <2>1, <2>3 DEF ReplicationInv, TypeOK, Request
  <2>7. /\ \A k \in Node : k # n =>
              pc'[k] = pc[k] /\ request'[k] = request[k] /\ answer'[k] = answer[k]
        /\ pc'[n] \in {"idle", "recover"}
    BY <1>2 DEF Leave, TypeOK
  <2> QED BY <2>1, <2>3, <2>4, <2>5, <2>6, <2>7, PeerIsOther DEF ReplicationInv, Job
<1>3. ASSUME NEW n \in Node, RecoverNext(n) PROVE ReplicationInv'
  <2>1. PICK r \in todo[n] : /\ todo' = [todo EXCEPT ![n] = @ \ {r}]
                             /\ Post(n, "recover-prepare",
                                     [kind |-> "prepare", src |-> n, life |-> life[n],
                                      seq |-> r.seq, row |-> r, epoch |-> 0])
    BY <1>3 DEF RecoverNext
  <2>2. UNCHANGED <<ops, outbox, acked>> BY <1>3 DEF RecoverNext, store
  <2>3. Holds(n, r.env.op) BY DEF ReplicationInv
  <2>4. pc'[n] = "recover-prepare" /\ Job(n)' = r
    BY <2>1 DEF Post, TypeOK, Job
  <2>5. \A k \in Node : k # n =>
           pc'[k] = pc[k] /\ Job(k)' = Job(k) /\ answer'[k] = answer[k]
    BY <2>1 DEF Post, TypeOK, Job
  <2>6. \A m \in net' : m.kind = "commit" => m \in net BY <2>1 DEF Post
  <2>7. \A k \in Node : todo'[k] \subseteq todo[k] BY <2>1 DEF TypeOK
  <2>8. \A k \in Node : \A o : Holds(k, o)' <=> Holds(k, o) BY <2>2 DEF Holds
  <2>9. CommittedOnBoth' /\ AckedOnBoth'
    BY <2>2, <2>8 DEF CommittedOnBoth, AckedOnBoth, ReplicationInv, Holds
  <2>10. \A m \in net' : m.kind = "commit" => Holds(m.src, m.row.env.op)'
    BY <2>2, <2>6 DEF ReplicationInv, Holds
  <2> QED BY <2>2, <2>3, <2>4, <2>5, <2>7, <2>8, <2>9, <2>10, PeerIsOther DEF ReplicationInv
<1>4. ASSUME NEW n \in Node, RecoverCommit(n) PROVE ReplicationInv'
  <2> DEFINE q == [kind |-> "commit", src |-> n, life |-> life[n],
                   seq |-> outSeq[n] + 1, row |-> Job(n), epoch |-> 0]
  <2>1. /\ Post(n, "recover-commit", q)
        /\ UNCHANGED <<ops, outbox, todo, acked>>
    BY <1>4 DEF RecoverCommit, Call
  <2>2. q.row = Job(n) /\ q.src = n OBVIOUS
  <2> HIDE DEF q
  <2>3. Holds(n, Job(n).env.op) BY <1>4 DEF RecoverCommit, ReplicationInv
  <2>4. pc'[n] = "recover-commit" /\ answer'[n] = "none" /\ Job(n)' = Job(n)
    BY <2>1, <2>2 DEF Post, TypeOK, Job
  <2>5. \A k \in Node : k # n =>
           pc'[k] = pc[k] /\ Job(k)' = Job(k) /\ answer'[k] = answer[k]
    BY <2>1 DEF Post, TypeOK, Job
  <2>6. \A k \in Node : \A o : Holds(k, o)' <=> Holds(k, o) BY <2>1 DEF Holds
  <2>7. \A m \in net' : m.kind = "commit" => m \in net \/ m = q BY <2>1 DEF Post
  <2>8. CommittedOnBoth' /\ AckedOnBoth'
    BY <2>1, <2>6 DEF CommittedOnBoth, AckedOnBoth, ReplicationInv, Holds
  <2>9. \A m \in net' : m.kind = "commit" => Holds(m.src, m.row.env.op)'
    BY <2>1, <2>2, <2>3, <2>7 DEF ReplicationInv, Holds
  <2> QED BY <2>1, <2>3, <2>4, <2>5, <2>6, <2>8, <2>9, PeerIsOther DEF ReplicationInv
<1>5. ASSUME NEW n \in Node, NEW e \in Envelope, AnswerAgain(n, e) PROVE ReplicationInv'
  <2>1. Holds(n, e.op) /\ Holds(Peer(n), e.op)
    BY <1>5 DEF AnswerAgain, Holds, ReplicationInv, CommittedOnBoth
  <2>2. UNCHANGED <<ops, outbox, todo, net, pc, request, answer>> /\ acked' = acked \cup {e}
    BY <1>5 DEF AnswerAgain, store, process
  <2>3. AckedOnBoth'
    BY <2>1, <2>2, PeerIsOther DEF AckedOnBoth, ReplicationInv, Holds
  <2> QED BY <2>2, <2>3 DEF ReplicationInv, CommittedOnBoth, Holds, Job
<1>6. ASSUME NEW n \in Node, NEW m \in net, CommitApplies(n, m) PROVE ReplicationInv'
  <2>1. PICK p \in prepared[n] : p.env.op = m.row.env.op /\ RecordOperation(n, p, "committed")
    BY <1>6 DEF CommitApplies
  <2>2. p \in Row BY DEF TypeOK
  <2>3. \A k \in Node : \A o : Holds(k, o)' <=> Holds(k, o) \/ (k = n /\ o = m.row.env.op)
    BY <2>1, <2>2, RecordHolds
  <2>4. m.kind = "commit" /\ m.src = Peer(n) /\ net' \subseteq net /\ Reply(m, TRUE)
        /\ UNCHANGED <<pc, request, outbox, todo, acked>>
    BY <1>6 DEF CommitApplies, ControlAccepted, Arrives
  <2>5. Holds(Peer(n), m.row.env.op) BY <2>4 DEF ReplicationInv
  <2>6. \A k \in Node : \A r \in ops'[k] :
           r \in ops[k] \/ (k = n /\ r.env.op = m.row.env.op)
    BY <2>1 DEF RecordOperation, TypeOK
  <2>7. CommittedOnBoth'
    BY <2>3, <2>5, <2>6, PeerIsOther DEF CommittedOnBoth, ReplicationInv
  <2>8. AckedOnBoth'
    BY <2>3, <2>4 DEF AckedOnBoth, ReplicationInv
  <2>9. \A k \in Node : answer'[k] = "yes" => answer[k] = "yes" \/ (k = Peer(n) /\ request[k] = m)
    BY <2>4 DEF Reply, TypeOK
  <2>10. \A k \in Node : (pc[k] \in {"commit", "recover-commit"} /\ answer'[k] = "yes")
            => Holds(Peer(k), Job(k).env.op)'
    <3> SUFFICES ASSUME NEW k \in Node, pc[k] \in {"commit", "recover-commit"},
                        answer'[k] = "yes"
                 PROVE  Holds(Peer(k), Job(k).env.op)'
      OBVIOUS
    <3>1. Job(k)' = Job(k) /\ Peer(k) \in Node BY <2>4, PeerIsOther DEF Job
    <3>2. CASE answer[k] = "yes"
      <4>1. Holds(Peer(k), Job(k).env.op) BY <3>2 DEF ReplicationInv
      <4> QED BY <2>3, <3>1, <4>1
    <3>3. CASE k = Peer(n) /\ request[k] = m
      <4>1. Peer(k) = n /\ Job(k) = m.row BY <3>3, PeerIsOther DEF Job
      <4> QED BY <2>3, <3>1, <4>1
    <3> QED BY <2>9, <3>2, <3>3
  <2>11. \A x \in net' : x.kind = "commit" => Holds(x.src, x.row.env.op)'
    BY <2>3, <2>4 DEF ReplicationInv, TypeOK, Request
  <2>12. \A k \in Node : pc'[k] = pc[k] /\ Job(k)' = Job(k) /\ outbox'[k] = outbox[k]
                         /\ todo'[k] = todo[k]
    BY <2>4 DEF Job
  <2> QED BY <2>3, <2>7, <2>8, <2>10, <2>11, <2>12 DEF ReplicationInv
<1>7. ASSUME NEW n \in Node, NEW m \in net, CommitKnown(n, m) PROVE ReplicationInv'
  <2>1. /\ m.kind = "commit" /\ m.src = Peer(n) /\ net' \subseteq net
        /\ Reply(m, Committed(n, m.row.env.op))
        /\ UNCHANGED <<ops, pc, request, outbox, todo, acked>>
    BY <1>7 DEF CommitKnown, ControlAccepted, Arrives
  <2>2. Committed(n, m.row.env.op) => Holds(n, m.row.env.op)
    BY DEF Committed, Holds
  <2>3. ASSUME NEW k \in Node, answer'[k] = "yes"
        PROVE  answer[k] = "yes" \/ (k = Peer(n) /\ request[k] = m /\ Holds(n, m.row.env.op))
    <3>1. CASE request[m.src] = m BY <2>1, <2>2, <2>3, <3>1, PeerIsOther DEF Reply, TypeOK
    <3>2. CASE request[m.src] # m BY <2>1, <2>3, <3>2 DEF Reply
    <3> QED BY <3>1, <3>2
  <2>4. \A k \in Node : (pc[k] \in {"commit", "recover-commit"} /\ answer'[k] = "yes")
            => Holds(Peer(k), Job(k).env.op)
    BY <2>3, PeerIsOther DEF ReplicationInv, Job
  <2>5. \A k \in Node : \A o : Holds(k, o)' <=> Holds(k, o) BY <2>1 DEF Holds
  <2>6. \A k \in Node : pc'[k] = pc[k] /\ Job(k)' = Job(k) /\ outbox'[k] = outbox[k]
                         /\ todo'[k] = todo[k]
    BY <2>1 DEF Job
  <2>7. CommittedOnBoth' /\ AckedOnBoth'
    BY <2>1, <2>5 DEF CommittedOnBoth, AckedOnBoth, ReplicationInv, Holds
  <2>8. \A x \in net' : x.kind = "commit" => Holds(x.src, x.row.env.op)'
    BY <2>1 DEF ReplicationInv, Holds
  <2> QED BY <2>4, <2>5, <2>6, <2>7, <2>8, PeerIsOther DEF ReplicationInv
<1>8. CASE \E n \in Node : Replicates(n)
  BY <1>1, <1>2, <1>3, <1>4, <1>5, <1>6, <1>7, <1>8
     DEF Replicates, CommitAcked, RecoverAcked
<1> QED BY <1>8, MostStepsOffReplication, OffReplicationKeeps

LEMMA ReplicationInvariant == Spec => []ReplicationInv
<1>1. Init => ReplicationInv
  BY DEF Init, ReplicationInv, CommittedOnBoth, AckedOnBoth
<1>2. TypeOK /\ TypeOK' /\ ReplicationInv /\ [Next]_vars => ReplicationInv'
  BY ReplicationStep
<1> QED BY <1>1, <1>2, TypeCorrect, PTL DEF Spec

\* A client answered 200 has its operation in both stores, after any lost or
\* late commit, retry or restart.
THEOREM AckedIsReplicated == Spec => []AckedOnBoth
<1>1. ReplicationInv => AckedOnBoth BY DEF ReplicationInv
<1> QED BY <1>1, ReplicationInvariant, PTL

\* An operation one store calls committed is in the other's store.
THEOREM CommittedIsReplicated == Spec => []CommittedOnBoth
<1>1. ReplicationInv => CommittedOnBoth BY DEF ReplicationInv
<1> QED BY <1>1, ReplicationInvariant, PTL


-----------------------------------------------------------------------------
(* Action properties and the abstract promise *)

\* Where a newly held operation comes from.
LEMMA NewOperation ==
    ASSUME TypeOK, [Next]_vars, NEW n \in Node, NEW r \in ops'[n],
           ~ Holds(n, r.env.op)
    PROVE  \/ LocalCommit(n) /\ r.env = Job(n).env /\ r.epoch = Job(n).epoch
           \/ \E m \in net : \E p \in prepared[n] :
                 /\ CommitApplies(n, m)
                 /\ p.epoch >= epoch[n]
                 /\ r.env = p.env /\ r.epoch = p.epoch
<1>1. ops' # ops BY DEF Holds
<1>2. PICK k \in Node : Replicates(k)
  BY <1>1, MostStepsOffReplication DEF OffReplication
<1>3. CASE LocalCommit(k)
  <2>1. RecordOperation(k, Job(k), "pending") BY <1>3 DEF LocalCommit
  <2>2. k = n /\ r \notin ops[n] BY <2>1 DEF RecordOperation, Holds, TypeOK
  <2> QED BY <1>3, <2>1, <2>2 DEF RecordOperation, TypeOK
<1>4. CASE CommitAcked(k) \/ RecoverAcked(k)
  <2>1. MarkReplicated(k, Job(k).env.op) BY <1>4 DEF CommitAcked, RecoverAcked
  <2>2. Holds(n, r.env.op)' BY DEF Holds
  <2> QED BY <2>1, <2>2, MarkHolds
<1>5. CASE RecoverNext(k) \/ RecoverCommit(k) \/ \E e \in Envelope : AnswerAgain(k, e)
  BY <1>1, <1>5 DEF RecoverNext, RecoverCommit, AnswerAgain, store
<1>6. ASSUME NEW m \in net, CommitApplies(k, m)
      PROVE  \E p \in prepared[n] :
                CommitApplies(n, m) /\ p.epoch >= epoch[n] /\ r.env = p.env /\ r.epoch = p.epoch
  <2>1. PICK p \in prepared[k] : p.epoch >= epoch[k] /\ RecordOperation(k, p, "committed")
    BY <1>6 DEF CommitApplies, Applicable
  <2>2. k = n /\ r \notin ops[n] BY <2>1 DEF RecordOperation, Holds, TypeOK
  <2>3. r.env = p.env /\ r.epoch = p.epoch
    BY <2>1, <2>2 DEF RecordOperation, TypeOK
  <2> QED BY <1>6, <2>1, <2>2, <2>3
<1>7. ASSUME NEW m \in net, CommitKnown(k, m) PROVE FALSE
  BY <1>1, <1>7 DEF CommitKnown
<1> QED BY <1>2, <1>3, <1>4, <1>5, <1>6, <1>7 DEF Replicates

LEMMA NoDeposedWriteStep ==
    ASSUME TypeOK, FailoverInv, [Next]_vars, NEW n \in Node, NEW k \in Node,
           NEW r \in ops'[n], role[k] = "active", ~ Holds(n, r.env.op)
    PROVE  r.epoch >= epoch[k]
<1>1. epoch[n] \in Nat /\ epoch[k] \in Nat BY DEF TypeOK
<1>2. CASE LocalCommit(n) /\ r.epoch = Job(n).epoch
  <2>1. role[n] = "active" /\ epoch[n] = r.epoch
    BY <1>2 DEF LocalCommit, LocalCommitFails
  <2> QED BY <1>1, <2>1, PeerIsOther DEF FailoverInv
<1>3. ASSUME NEW m \in net, NEW p \in prepared[n], p.epoch >= epoch[n], r.epoch = p.epoch
      PROVE  r.epoch >= epoch[k]
  <2>1. p.epoch \in Nat BY DEF TypeOK, Row
  <2>2. epoch[n] >= epoch[k] BY <1>1, PeerIsOther DEF FailoverInv
  <2> QED BY <1>1, <1>3, <2>1, <2>2
<1> QED BY <1>2, <1>3, NewOperation

\* Once the successor is active nothing of the deposed controller is recorded,
\* not even by a commit that was under way when it was fenced.
THEOREM DeposedWritesNothing == Spec => NoDeposedWrite
<1>1. TypeOK /\ FailoverInv /\ [Next]_vars =>
         [\A n, k \in Node : \A r \in ops'[n] :
            (role[k] = "active" /\ ~ Holds(n, r.env.op)) => r.epoch >= epoch[k]]_vars
  BY NoDeposedWriteStep
<1> QED BY <1>1, TypeCorrect, FailoverInvariant, PTL DEF Spec, NoDeposedWrite

\* Only a local commit and an applied commit change a generation, and only
\* Submit starts to prepare one.
OffGeneration ==
    /\ generation' = generation
    /\ \A k \in Node : pc'[k] = "prepare" => pc[k] = "prepare" /\ request'[k] = request[k]

LEMMA PostOffGeneration ==
    ASSUME TypeOK, NEW n \in Node, NEW where, NEW r, Post(n, where, r),
           where # "prepare", generation' = generation
    PROVE  OffGeneration
BY DEF Post, TypeOK, OffGeneration

LEMMA LeaveOffGeneration ==
    ASSUME TypeOK, NEW n \in Node, NEW where, Leave(n, where),
           where # "prepare", generation' = generation
    PROVE  OffGeneration
BY DEF Leave, TypeOK, OffGeneration

LEMMA MostStepsOffGeneration ==
    ASSUME TypeOK, [Next]_vars,
           ~ \E n \in Node : \/ LocalCommit(n)
                             \/ \E e \in Envelope : Submit(n, e)
                             \/ \E m \in net : CommitApplies(n, m)
    PROVE  OffGeneration
<1>1. ASSUME UNCHANGED <<generation, pc, request>> PROVE OffGeneration
  BY <1>1 DEF OffGeneration
<1>2. ASSUME NEW n \in Node, NEW e \in Envelope, AnswerAgain(n, e) \/ Refuse(n, e)
      PROVE  OffGeneration
  BY <1>1, <1>2 DEF AnswerAgain, Refuse, store, process, vars
<1>3. ASSUME NEW n \in Node, NEW e \in InitEpoch .. MaxEpoch, Promote(n, e)
      PROVE  OffGeneration
  BY <1>3, PostOffGeneration DEF Promote, Call
<1>4. ASSUME NEW n \in Node, GiveUp(n) \/ RecoverNext(n) \/ RecoverCommit(n)
      PROVE  OffGeneration
  BY <1>4, PostOffGeneration DEF GiveUp, RecoverNext, RecoverCommit, Call, store
<1>5. ASSUME NEW n \in Node,
             \/ AbortDone(n) \/ CommitAcked(n) \/ CommitUnanswered(n) \/ RecoverAcked(n)
             \/ RecoverFailed(n) \/ RecoverDone(n) \/ Promoted(n) \/ PromotionFails(n)
             \/ Restart(n)
      PROVE  OffGeneration
  BY <1>5, LeaveOffGeneration
     DEF AbortDone, CommitAcked, CommitUnanswered, RecoverAcked, RecoverFailed,
         RecoverDone, Promoted, PromotionFails, Restart, store
<1>6. ASSUME NEW n \in Node, NEW m \in net, Handles(n, m), ~ CommitApplies(n, m)
      PROVE  OffGeneration
  <2>1. CASE ControlCrash(n, m)
    BY <2>1, LeaveOffGeneration DEF ControlCrash
  <2>2. CASE ~ ControlCrash(n, m)
    BY <1>1, <1>6, <2>2
       DEF Handles, PrepareKnown, PrepareNew, PrepareRefused, ControlStale,
           CommitKnown, Abort, Fenced, FenceRefused, store
  <2> QED BY <2>1, <2>2
<1>7. CASE UNCHANGED vars BY <1>1, <1>7 DEF vars
<1> QED BY <1>2, <1>3, <1>4, <1>5, <1>6, <1>7 DEF Next, Asked, Proceeds

\* A step keeps the invariant and takes no generation back.
GenerationKept ==
    GenerationInv' /\ \A n \in Node : generation'[n] >= generation[n]

LEMMA GenerationStep ==
    ASSUME TypeOK, TypeOK', GenerationInv, [Next]_vars
    PROVE  GenerationKept
<1>1. ASSUME NEW n \in Node, LocalCommit(n) PROVE GenerationKept
  <2>1. Job(n).generation >= generation[n] BY <1>1 DEF LocalCommit, GenerationInv
  <2>2. generation' = [generation EXCEPT ![n] = Job(n).generation]
        /\ Call(n, "commit", "commit", Job(n), 0)
    BY <1>1 DEF LocalCommit
  <2>3. \A k \in Node : generation'[k] >= generation[k]
    BY <2>1, <2>2 DEF TypeOK
  <2>4. \A k \in Node : pc'[k] = "prepare" =>
           pc[k] = "prepare" /\ Job(k)' = Job(k) /\ generation'[k] = generation[k]
    BY <2>2 DEF Call, Post, TypeOK, Job
  <2> QED BY <2>3, <2>4 DEF GenerationInv, GenerationKept
<1>2. ASSUME NEW n \in Node, NEW e \in Envelope, Submit(n, e) PROVE GenerationKept
  <2>1. Call(n, "prepare", "prepare", NewRow(n, e), 0) /\ generation' = generation
    BY <1>2 DEF Submit
  <2>2. NewRow(n, e).generation >= generation[n] BY DEF NewRow, Raise, TypeOK
  <2> HIDE DEF NewRow
  <2>3. Job(n)' = NewRow(n, e) BY <2>1 DEF Call, Post, TypeOK, Job
  <2>4. \A k \in Node : k # n => pc'[k] = pc[k] /\ Job(k)' = Job(k)
    BY <2>1 DEF Call, Post, TypeOK, Job
  <2>5. \A k \in Node : generation[k] \in Nat BY DEF TypeOK
  <2> QED BY <2>1, <2>2, <2>3, <2>4, <2>5 DEF GenerationInv, GenerationKept
<1>3. ASSUME NEW n \in Node, NEW m \in net, CommitApplies(n, m) PROVE GenerationKept
  <2>1. PICK p \in prepared[n] :
              generation' = [generation EXCEPT ![n] = Later(@, p.generation)]
    BY <1>3 DEF CommitApplies
  <2>2. p.generation \in Nat BY DEF TypeOK, Row
  <2>3. \A k \in Node : generation'[k] >= generation[k] BY <2>1, <2>2 DEF TypeOK, Later
  <2>4. pc[n] = "idle" /\ UNCHANGED <<pc, request>>
    BY <1>3 DEF CommitApplies, ControlAccepted, Arrives
  <2>5. \A k \in Node : k # n => generation'[k] = generation[k] BY <2>1 DEF TypeOK
  <2> QED BY <2>3, <2>4, <2>5 DEF GenerationInv, GenerationKept, Job
<1>4. CASE OffGeneration
  <2>1. /\ generation' = generation
        /\ \A k \in Node : pc'[k] = "prepare" => pc[k] = "prepare" /\ request'[k] = request[k]
    BY <1>4 DEF OffGeneration
  <2>2. \A n \in Node : generation[n] \in Nat BY DEF TypeOK
  <2> QED BY <2>1, <2>2 DEF GenerationInv, GenerationKept, Job
<1> QED BY <1>1, <1>2, <1>3, <1>4, MostStepsOffGeneration

LEMMA EpochStep ==
    ASSUME TypeOK, FailoverInv, [Next]_vars, NEW n \in Node
    PROVE  epoch'[n] >= epoch[n]
<1> \A k \in Node : epoch[k] \in Nat BY DEF TypeOK
<1>1. ASSUME NEW k \in Node, Promoted(k) PROVE epoch'[n] >= epoch[n]
  <2>1. request[k].epoch \in Nat BY <1>1 DEF Promoted, TypeOK, CallOK, Request
  <2> QED BY <1>1, <2>1 DEF Promoted, TypeOK
<1>2. ASSUME NEW k \in Node, NEW m \in net, Fenced(k, m) PROVE epoch'[n] >= epoch[n]
  <2>1. m.epoch \in Nat BY DEF TypeOK, Request
  <2> QED BY <1>2, <2>1 DEF Fenced, Behind, TypeOK
<1>3. ASSUME NEW k \in Node, NEW m \in net, CommitApplies(k, m) PROVE epoch'[n] >= epoch[n]
  <2>1. PICK p \in prepared[k] : epoch' = [epoch EXCEPT ![k] = Later(@, p.epoch)]
    BY <1>3 DEF CommitApplies
  <2>2. p.epoch \in Nat BY DEF TypeOK, Row
  <2> QED BY <2>1, <2>2 DEF TypeOK, Later
<1>4. ASSUME NEW k \in Node, NEW e \in InitEpoch .. MaxEpoch, Promote(k, e)
      PROVE  epoch'[n] >= epoch[n]
  BY <1>4 DEF Promote
<1>5. CASE OffFailover BY <1>5 DEF OffFailover
<1> QED BY <1>1, <1>2, <1>3, <1>4, <1>5, MostStepsOffFailover

\* No fence, late commit, recovery or restart takes a controller's epoch or
\* generation back.
THEOREM NeverBackward == Spec => OnlyForward
<1>1. Init => GenerationInv BY DEF Init, GenerationInv
<1>2. TypeOK /\ TypeOK' /\ GenerationInv /\ [Next]_vars => GenerationInv'
  BY GenerationStep DEF GenerationKept
<1>3. TypeOK /\ TypeOK' /\ FailoverInv /\ GenerationInv /\ [Next]_vars =>
         [\A n \in Node : epoch'[n] >= epoch[n] /\ generation'[n] >= generation[n]]_vars
  BY GenerationStep, EpochStep DEF GenerationKept
<1> QED BY <1>1, <1>2, <1>3, TypeCorrect, FailoverInvariant, PTL DEF Spec, OnlyForward

-----------------------------------------------------------------------------
(* Controller implements ReplicatedOps *)

LEMMA RefinementStep ==
    ASSUME TypeOK, TypeOK', ReplicationInv', [Next]_vars
    PROVE  [Abstract!RNext]_(Abstract!rvars)
<1> DEFINE holders == [o \in Operation |-> {n \in Node : Holds(n, o)}]
           answered == {e.op : e \in acked}
<1>1. CASE UNCHANGED <<ops, acked>>
  BY <1>1 DEF Abstract!rvars, Holds
<1>2. ASSUME NEW n \in Node, NEW row \in Row, NEW s, RecordOperation(n, row, s),
             UNCHANGED acked
      PROVE  [Abstract!RNext]_(Abstract!rvars)
  <2>1. \A k \in Node : \A o : Holds(k, o)' <=> Holds(k, o) \/ (k = n /\ o = row.env.op)
    BY <1>2, RecordHolds
  <2>2. row.env.op \in Operation BY DEF Row, Operation
  <2>3. CASE Holds(n, row.env.op)
    <3>1. holders' = holders BY <2>1, <2>3
    <3> QED BY <1>2, <3>1 DEF Abstract!rvars
  <2>4. CASE ~ Holds(n, row.env.op)
    <3>1. holders' = [holders EXCEPT ![row.env.op] = @ \cup {n}]
      BY <2>1, <2>2
    <3>2. n \notin holders[row.env.op] BY <2>2, <2>4
    <3>3. Abstract!Record(n, row.env.op)
      BY <1>2, <3>1, <3>2 DEF Abstract!Record
    <3> QED BY <2>2, <3>3 DEF Abstract!RNext
  <2> QED BY <2>3, <2>4
<1>3. ASSUME NEW e \in Envelope, acked' = acked \cup {e},
             \A k \in Node : \A o : Holds(k, o)' <=> Holds(k, o)
      PROVE  [Abstract!RNext]_(Abstract!rvars)
  <2>1. e.op \in Operation BY DEF Operation
  <2>2. \A n \in Node : Holds(n, e.op)
    BY <1>3 DEF ReplicationInv, AckedOnBoth
  <2>3. holders[e.op] = Node BY <2>1, <2>2
  <2>4. holders' = holders BY <1>3
  <2>5. answered' = answered \cup {e.op} BY <1>3
  <2>6. Abstract!AnswerClient(e.op) BY <2>3, <2>4, <2>5 DEF Abstract!AnswerClient
  <2> QED BY <2>1, <2>6 DEF Abstract!RNext
<1>4. ASSUME NEW n \in Node, LocalCommit(n) PROVE [Abstract!RNext]_(Abstract!rvars)
  <2>1. Job(n) \in Row BY <1>4 DEF LocalCommit, TypeOK, CallOK, HasRow, Job
  <2> QED BY <1>2, <1>4, <2>1 DEF LocalCommit
<1>5. ASSUME NEW n \in Node, NEW m \in net, CommitApplies(n, m)
      PROVE  [Abstract!RNext]_(Abstract!rvars)
  <2>1. PICK p \in prepared[n] : RecordOperation(n, p, "committed")
    BY <1>5 DEF CommitApplies
  <2>2. p \in Row BY DEF TypeOK
  <2> QED BY <1>2, <1>5, <2>1, <2>2 DEF CommitApplies
<1>6. ASSUME NEW n \in Node, CommitAcked(n) PROVE [Abstract!RNext]_(Abstract!rvars)
  <2>1. Job(n).env \in Envelope
    BY <1>6 DEF CommitAcked, TypeOK, CallOK, HasRow, Job, Row
  <2>2. \A k \in Node : \A o : Holds(k, o)' <=> Holds(k, o)
    BY <1>6, MarkHolds DEF CommitAcked
  <2> QED BY <1>3, <1>6, <2>1, <2>2 DEF CommitAcked
<1>7. ASSUME NEW n \in Node, RecoverAcked(n) PROVE [Abstract!RNext]_(Abstract!rvars)
  <2>1. \A k \in Node : \A o : Holds(k, o)' <=> Holds(k, o)
    BY <1>7, MarkHolds DEF RecoverAcked
  <2>2. UNCHANGED acked BY <1>7 DEF RecoverAcked
  <2> QED BY <2>1, <2>2 DEF Abstract!rvars
<1>8. ASSUME NEW n \in Node, NEW e \in Envelope, AnswerAgain(n, e)
      PROVE  [Abstract!RNext]_(Abstract!rvars)
  BY <1>3, <1>8 DEF AnswerAgain, store, Holds
<1>9. ASSUME NEW n \in Node, RecoverNext(n) \/ RecoverCommit(n) PROVE UNCHANGED <<ops, acked>>
  BY <1>9 DEF RecoverNext, RecoverCommit, store
<1>10. ASSUME NEW n \in Node, NEW m \in net, CommitKnown(n, m) PROVE UNCHANGED <<ops, acked>>
  BY <1>10 DEF CommitKnown
<1>11. CASE \E n \in Node : Replicates(n)
  BY <1>1, <1>4, <1>5, <1>6, <1>7, <1>8, <1>9, <1>10, <1>11 DEF Replicates
<1> QED BY <1>1, <1>11, MostStepsOffReplication DEF OffReplication

\* The controllers implement the abstract promise: an operation is recorded,
\* then copied, and answered only when both hold it.
THEOREM ControllerReplicates == Spec => ReplicatesOps
<1>1. Init => Abstract!RInit
  BY DEF Init, Abstract!RInit, Holds
<1>2. TypeOK /\ TypeOK' /\ ReplicationInv' /\ [Next]_vars => [Abstract!RNext]_(Abstract!rvars)
  BY RefinementStep
<1> QED BY <1>1, <1>2, TypeCorrect, ReplicationInvariant, PTL
        DEF Spec, ReplicatesOps, Abstract!RSpec

-----------------------------------------------------------------------------
(* The outbox and the pending operations *)

LEMMA OutboxStep ==
    ASSUME TypeOK, OutboxIsPending, [Next]_vars
    PROVE  OutboxIsPending'
<1> DEFINE Pending(n) == {r.env : r \in {s \in ops[n] : s.state = "pending"}}
           Queued(n) == {r.env : r \in outbox[n]}
<1>1. \A n \in Node : Queued(n) = Pending(n) BY DEF OutboxIsPending
<1>2. CASE UNCHANGED <<ops, outbox>>
  BY <1>2 DEF OutboxIsPending
<1>3. ASSUME NEW n \in Node, NEW row \in Row, RecordOperation(n, row, "committed"),
             UNCHANGED outbox
      PROVE  OutboxIsPending'
  <2>1. \A k \in Node : {s \in ops'[k] : s.state = "pending"}
                          = {s \in ops[k] : s.state = "pending"}
    BY <1>3 DEF RecordOperation, TypeOK
  <2> QED BY <1>3, <2>1 DEF OutboxIsPending
<1>4. ASSUME NEW n \in Node, NEW row \in Row, RecordOperation(n, row, "pending"),
             outbox' = [outbox EXCEPT ![n] = @ \cup {row}]
      PROVE  OutboxIsPending'
  <2>1. \A k \in Node : k # n => ops'[k] = ops[k] /\ outbox'[k] = outbox[k]
    BY <1>4 DEF RecordOperation, TypeOK
  <2>2. Queued(n)' = Queued(n) \cup {row.env}
    BY <1>4 DEF TypeOK
  <2>3. ops'[n] = ops[n] \cup {[env |-> row.env, epoch |-> row.epoch,
                               generation |-> row.generation, state |-> "pending"]}
    BY <1>4 DEF RecordOperation, TypeOK
  <2>4. Pending(n)' = Pending(n) \cup {row.env}
    <3> DEFINE q == [env |-> row.env, epoch |-> row.epoch,
                     generation |-> row.generation, state |-> "pending"]
    <3>1. q.env = row.env /\ q.state = "pending" OBVIOUS
    <3>2. ops'[n] = ops[n] \cup {q} BY <2>3
    <3> HIDE DEF q
    <3>3. {s \in ops'[n] : s.state = "pending"}
             = {s \in ops[n] : s.state = "pending"} \cup {q}
      BY <3>1, <3>2
    <3> QED BY <3>1, <3>3
  <2>5. Queued(n)' = Pending(n)' BY <1>1, <2>2, <2>4
  <2> QED BY <1>1, <2>1, <2>5 DEF OutboxIsPending
<1>5. ASSUME NEW n \in Node, NEW o, MarkReplicated(n, o) PROVE OutboxIsPending'
  <2>1. \A k \in Node : k # n => ops'[k] = ops[k] /\ outbox'[k] = outbox[k]
    BY <1>5 DEF MarkReplicated, TypeOK
  <2>2. \A r \in OpRow : /\ [r EXCEPT !.state = "committed"].env = r.env
                         /\ [r EXCEPT !.state = "committed"].state = "committed"
    BY DEF OpRow
  <2>3. ops'[n] = {IF r.env.op = o THEN [r EXCEPT !.state = "committed"] ELSE r : r \in ops[n]}
    BY <1>5 DEF MarkReplicated, TypeOK
  <2>4. ops[n] \subseteq OpRow BY DEF TypeOK
  <2>5. {s \in ops'[n] : s.state = "pending"}
          = {s \in ops[n] : s.state = "pending" /\ s.env.op # o}
    BY <2>2, <2>3, <2>4
  <2>6. Pending(n)' = {e \in Pending(n) : e.op # o} BY <2>5
  <2>7. outbox'[n] = {r \in outbox[n] : r.env.op # o}
    BY <1>5 DEF MarkReplicated, TypeOK
  <2>8. Queued(n)' = {e \in Queued(n) : e.op # o} BY <2>7
  <2>9. Queued(n)' = Pending(n)' BY <1>1, <2>6, <2>8
  <2> QED BY <1>1, <2>1, <2>9 DEF OutboxIsPending
<1>6. ASSUME NEW n \in Node, LocalCommit(n) PROVE OutboxIsPending'
  <2>1. Job(n) \in Row BY <1>6 DEF LocalCommit, TypeOK, CallOK, HasRow, Job
  <2> QED BY <1>4, <1>6, <2>1 DEF LocalCommit
<1>7. ASSUME NEW n \in Node, CommitAcked(n) \/ RecoverAcked(n) PROVE OutboxIsPending'
  BY <1>5, <1>7 DEF CommitAcked, RecoverAcked
<1>8. ASSUME NEW n \in Node, NEW m \in net, CommitApplies(n, m) PROVE OutboxIsPending'
  <2>1. PICK p \in prepared[n] : RecordOperation(n, p, "committed")
    BY <1>8 DEF CommitApplies
  <2>2. p \in Row BY DEF TypeOK
  <2> QED BY <1>3, <1>8, <2>1, <2>2 DEF CommitApplies
<1>9. CASE ~ \E n \in Node : \/ LocalCommit(n) \/ CommitAcked(n) \/ RecoverAcked(n)
                             \/ \E m \in net : CommitApplies(n, m)
  <2>1. ASSUME NEW n \in Node, Asked(n) PROVE UNCHANGED <<ops, outbox>>
    BY <2>1 DEF Asked, Submit, AnswerAgain, Refuse, Promote, store, vars
  <2>2. ASSUME NEW n \in Node, Proceeds(n) PROVE UNCHANGED <<ops, outbox>>
    BY <1>9, <2>2
       DEF Proceeds, GiveUp, AbortDone, CommitUnanswered, RecoverNext, RecoverCommit,
           RecoverFailed, RecoverDone, Promoted, PromotionFails, store
  <2>3. ASSUME NEW n \in Node, Restart(n) PROVE UNCHANGED <<ops, outbox>>
    BY <2>3 DEF Restart, store
  <2>4. ASSUME NEW n \in Node, NEW m \in net, Handles(n, m) PROVE UNCHANGED <<ops, outbox>>
    BY <1>9, <2>4
       DEF Handles, PrepareKnown, PrepareNew, PrepareRefused, ControlStale, ControlCrash,
           CommitKnown, Abort, Fenced, FenceRefused, store
  <2>5. CASE UNCHANGED vars BY <1>2, <2>5 DEF vars
  <2> QED BY <1>2, <2>1, <2>2, <2>3, <2>4, <2>5 DEF Next
<1> QED BY <1>6, <1>7, <1>8, <1>9

\* Recovery reads the outbox alone: it never misses an operation that mutate
\* left pending, and never replays one already replicated.
THEOREM OutboxTracksPending == Spec => []OutboxIsPending
<1>1. Init => OutboxIsPending BY DEF Init, OutboxIsPending
<1>2. TypeOK /\ OutboxIsPending /\ [Next]_vars => OutboxIsPending' BY OutboxStep
<1> QED BY <1>1, <1>2, TypeCorrect, PTL DEF Spec

-----------------------------------------------------------------------------
(* What the compare-and-swap fields promise *)

\* A step that proposes no row but those it already works on.
OffAllowed ==
    /\ \A m \in net' \ net : m.kind # "fence" => Allowed(m.row)
    /\ \A n \in Node :
         /\ \A r \in ops'[n] : r \in ops[n] \/ Allowed(r)
         /\ \A r \in prepared'[n] \cup outbox'[n] \cup todo'[n] :
               r \in prepared[n] \cup outbox[n] \cup todo[n] \/ Allowed(r)
         /\ pc'[n] \notin {"idle", "recover", "fence"} =>
               \/ pc[n] \notin {"idle", "recover", "fence"} /\ request'[n] = request[n]
               \/ Allowed(request'[n].row)

LEMMA OffAllowedKeeps ==
    ASSUME AllowedInv, OffAllowed
    PROVE  AllowedInv'
BY DEF AllowedInv, OffAllowed, ComparedAndSwapped, Job, Allowed, Raise

LEMMA NewRowAllowed ==
    ASSUME TypeOK, NEW n \in Node, NEW e \in Envelope, Admits(n, e)
    PROVE  Allowed(NewRow(n, e))
BY DEF Admits, NewRow, Allowed, TypeOK

LEMMA CallAllowed ==
    ASSUME TypeOK, NEW n \in Node, NEW where, NEW kind, NEW row, NEW e,
           Call(n, where, kind, row, e),
           kind # "fence" => Allowed(row),
           where # "fence" => Allowed(row),
           \A k \in Node : \A r \in ops'[k] : r \in ops[k] \/ Allowed(r),
           \A k \in Node : \A r \in outbox'[k] : r \in outbox[k] \/ Allowed(r),
           UNCHANGED <<prepared, todo>>
    PROVE  OffAllowed
BY DEF OffAllowed, Call, Post, TypeOK

LEMMA LeaveAllowed ==
    ASSUME TypeOK, NEW n \in Node, NEW where \in {"idle", "recover"}, Leave(n, where),
           UNCHANGED <<ops, outbox, prepared>>, net' \subseteq net,
           todo' \in {todo, [todo EXCEPT ![n] = outbox[n]]}
    PROVE  OffAllowed
BY DEF OffAllowed, Leave, TypeOK

\* A row marked replicated keeps its epoch and its generation.
LEMMA MarkAllowed ==
    ASSUME TypeOK, AllowedInv, NEW n \in Node, NEW o, MarkReplicated(n, o),
           NEW where \in {"idle", "recover"}, Leave(n, where),
           UNCHANGED <<prepared, todo, net>>
    PROVE  OffAllowed
<1>1. ASSUME NEW k \in Node, NEW r \in ops'[k] PROVE Allowed(r)
  <2>1. CASE r \in ops[k] BY <2>1 DEF AllowedInv, ComparedAndSwapped
  <2>2. CASE r \notin ops[k]
    <3>1. PICK q \in ops[k] : r = IF q.env.op = o THEN [q EXCEPT !.state = "committed"] ELSE q
      BY <1>1, <2>2 DEF MarkReplicated, TypeOK
    <3>2. q \in OpRow /\ Allowed(q) BY <3>1 DEF TypeOK, AllowedInv, ComparedAndSwapped
    <3>3. r.env = q.env /\ r.epoch = q.epoch /\ r.generation = q.generation
      BY <3>1, <3>2 DEF OpRow
    <3> QED BY <3>2, <3>3 DEF Allowed
  <2> QED BY <2>1, <2>2
<1>2. \A k \in Node : outbox'[k] \subseteq outbox[k] BY DEF MarkReplicated, TypeOK
<1>3. \A k \in Node : pc'[k] \notin {"idle", "recover"} => pc'[k] = pc[k] /\ request'[k] = request[k]
  BY DEF Leave, TypeOK
<1> QED BY <1>1, <1>2, <1>3 DEF OffAllowed

LEMMA RecordAllowed ==
    ASSUME TypeOK, NEW n \in Node, NEW row, Allowed(row), NEW s, RecordOperation(n, row, s)
    PROVE  \A k \in Node : \A r \in ops'[k] : r \in ops[k] \/ Allowed(r)
<1> DEFINE new == [env |-> row.env, epoch |-> row.epoch,
                   generation |-> row.generation, state |-> s]
<1>1. Allowed(new) BY DEF Allowed
<1>2. \A k \in Node : ops'[k] \subseteq ops[k] \cup {new} BY DEF RecordOperation, TypeOK
<1> QED BY <1>1, <1>2

LEMMA AllowedStep ==
    ASSUME TypeOK, AllowedInv, [Next]_vars
    PROVE  AllowedInv'
<1> SUFFICES OffAllowed BY OffAllowedKeeps
<1>1. ASSUME NEW n \in Node, NEW e \in Envelope, Submit(n, e) PROVE OffAllowed
  <2>1. Allowed(NewRow(n, e)) BY <1>1, NewRowAllowed DEF Submit
  <2> QED BY <1>1, <2>1, CallAllowed DEF Submit
<1>2. ASSUME NEW n \in Node, NEW e \in InitEpoch .. MaxEpoch, Promote(n, e) PROVE OffAllowed
  BY <1>2, CallAllowed DEF Promote
<1>3. ASSUME NEW n \in Node, LocalCommit(n) PROVE OffAllowed
  <2>1. Allowed(Job(n)) BY <1>3 DEF LocalCommit, AllowedInv
  <2>2. \A k \in Node : \A r \in ops'[k] : r \in ops[k] \/ Allowed(r)
    BY <1>3, <2>1, RecordAllowed DEF LocalCommit
  <2>3. \A k \in Node : \A r \in outbox'[k] : r \in outbox[k] \/ Allowed(r)
    BY <1>3, <2>1 DEF LocalCommit, TypeOK
  <2> QED BY <1>3, <2>1, <2>2, <2>3, CallAllowed DEF LocalCommit
<1>4. ASSUME NEW n \in Node, GiveUp(n) \/ RecoverCommit(n) PROVE OffAllowed
  <2>1. Allowed(Job(n)) BY <1>4 DEF GiveUp, RecoverCommit, AllowedInv
  <2> QED BY <1>4, <2>1, CallAllowed DEF GiveUp, RecoverCommit
<1>5. ASSUME NEW n \in Node, CommitAcked(n) \/ RecoverAcked(n) PROVE OffAllowed
  BY <1>5, MarkAllowed DEF CommitAcked, RecoverAcked
<1>6. ASSUME NEW n \in Node, AbortDone(n) \/ CommitUnanswered(n) \/ RecoverFailed(n)
                  \/ RecoverDone(n) \/ Promoted(n) \/ PromotionFails(n) \/ Restart(n)
      PROVE  OffAllowed
  BY <1>6, LeaveAllowed
     DEF AbortDone, CommitUnanswered, RecoverFailed, RecoverDone, Promoted, PromotionFails,
         Restart, store
<1>7. ASSUME NEW n \in Node, RecoverNext(n) PROVE OffAllowed
  <2>1. PICK r \in todo[n] :
           /\ todo' = [todo EXCEPT ![n] = @ \ {r}]
           /\ Post(n, "recover-prepare", [kind |-> "prepare", src |-> n, life |-> life[n],
                                          seq |-> r.seq, row |-> r, epoch |-> 0])
    BY <1>7 DEF RecoverNext
  <2>2. Allowed(r) BY <2>1 DEF AllowedInv
  <2> QED BY <1>7, <2>1, <2>2 DEF RecoverNext, store, Post, OffAllowed, TypeOK
<1>8. ASSUME NEW n \in Node, NEW m \in net, ControlCrash(n, m) PROVE OffAllowed
  BY <1>8, LeaveAllowed DEF ControlCrash, ControlAccepted, Arrives
<1>9. ASSUME NEW n \in Node, NEW m \in net, PrepareNew(n, m) PROVE OffAllowed
  <2>1. Allowed(m.row) BY <1>9 DEF PrepareNew, Arrives, AllowedInv
  <2> QED BY <1>9, <2>1 DEF PrepareNew, Arrives, OffAllowed, TypeOK
<1>10. ASSUME NEW n \in Node, NEW m \in net, CommitApplies(n, m) PROVE OffAllowed
  <2>1. PICK p \in prepared[n] :
           RecordOperation(n, p, "committed") /\ prepared' = [prepared EXCEPT ![n] = @ \ {p}]
    BY <1>10 DEF CommitApplies
  <2>2. Allowed(p) BY <2>1 DEF AllowedInv
  <2>3. \A k \in Node : \A r \in ops'[k] : r \in ops[k] \/ Allowed(r)
    BY <2>1, <2>2, RecordAllowed
  <2> QED BY <1>10, <2>1, <2>3 DEF CommitApplies, ControlAccepted, Arrives, OffAllowed, TypeOK
<1>11. ASSUME NEW n \in Node, NEW m \in net,
              PrepareKnown(n, m) \/ PrepareRefused(n, m) \/ ControlStale(n, m)
              \/ CommitKnown(n, m) \/ Abort(n, m) \/ Fenced(n, m) \/ FenceRefused(n, m)
       PROVE  OffAllowed
  <2>1. UNCHANGED <<ops, outbox, todo, pc, request>> /\ net' \subseteq net
    BY <1>11 DEF PrepareKnown, PrepareRefused, ControlStale, CommitKnown, Abort, Fenced,
                 FenceRefused, ControlAccepted, Arrives, store
  <2>2. CASE Abort(n, m)
    <3>1. \A k \in Node : prepared'[k] \subseteq prepared[k] BY <2>2 DEF Abort, TypeOK
    <3> QED BY <2>1, <3>1 DEF OffAllowed
  <2>3. CASE ~ Abort(n, m)
    <3>1. UNCHANGED prepared
      BY <1>11, <2>3 DEF PrepareKnown, PrepareRefused, ControlStale, CommitKnown, Fenced,
                         FenceRefused, store
    <3> QED BY <2>1, <3>1 DEF OffAllowed
  <2> QED BY <2>2, <2>3
<1>12. ASSUME UNCHANGED <<store, process, net>> PROVE OffAllowed
  BY <1>12 DEF OffAllowed, store, process
<1>13. ASSUME NEW n \in Node, NEW e \in Envelope, AnswerAgain(n, e) \/ Refuse(n, e)
       PROVE  OffAllowed
  BY <1>12, <1>13 DEF AnswerAgain, Refuse, vars, store, process
<1>14. ASSUME NEW n \in Node, Asked(n) \/ Proceeds(n) \/ Restart(n) PROVE OffAllowed
  BY <1>1, <1>2, <1>3, <1>4, <1>5, <1>6, <1>7, <1>13, <1>14 DEF Asked, Proceeds
<1>15. ASSUME NEW n \in Node, NEW m \in net, Handles(n, m) PROVE OffAllowed
  BY <1>8, <1>9, <1>10, <1>11, <1>15 DEF Handles
<1>16. ASSUME UNCHANGED vars PROVE OffAllowed
  BY <1>12, <1>16 DEF vars, store, process
<1> QED BY <1>14, <1>15, <1>16 DEF Next

\* The epoch and the generation a store records are ones the signed envelope
\* allowed, for any number of tries, lost answers, late commits and recoveries.
THEOREM ComparesAndSwaps == Spec => []ComparedAndSwapped
<1>1. Init => AllowedInv BY DEF Init, AllowedInv, ComparedAndSwapped
<1>2. TypeOK /\ AllowedInv /\ [Next]_vars => AllowedInv' BY AllowedStep
<1>3. AllowedInv => ComparedAndSwapped BY DEF AllowedInv
<1> QED BY <1>1, <1>2, <1>3, TypeCorrect, PTL DEF Spec

=============================================================================
