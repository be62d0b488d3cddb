------------------------ MODULE EventForwarderProofs ------------------------
(***************************************************************************)
(* Proofs about EventForwarder for any number of controllers, lines and    *)
(* killed passes.                                                          *)
(***************************************************************************)
EXTENDS EventForwarder, TLAPS

LEMMA SignedFields ==
    ASSUME NEW e \in Signed
    PROVE  e.line \in Nat \ {0} /\ e.seq \in Nat \ {0} /\ e # None
BY NoneAssumption DEF Signed

LEMMA SignedType ==
    ASSUME NEW i \in Nat \ {0}, NEW s \in Nat \ {0}
    PROVE  /\ [line |-> i, seq |-> s] \in Signed
           /\ [line |-> i, seq |-> s].line = i /\ [line |-> i, seq |-> s].seq = s
BY DEF Signed

LEMMA LateFields ==
    ASSUME TypeOK, NEW p \in late
    PROVE  p[1] \in Controllers /\ p[2] \in Signed
BY DEF TypeOK

-----------------------------------------------------------------------------
(* What a controller does with a post *)

Handles(c, e) == Accepts(c, e) \/ AcceptsHalf(c, e) \/ Refuses(c, e) \/ Dies(c, e)

\* What the controllers have got.
Kept == (UNION {stored[c] : c \in Controllers}) \cup half \cup spent

\* Handling a post records nothing else, and forgets nothing.
LEMMA HandlesFacts ==
    ASSUME TypeOK, NEW c \in Controllers, NEW e \in Signed, Handles(c, e)
    PROVE  /\ stored' \in [Controllers -> SUBSET Signed]
           /\ half' \subseteq Signed /\ spent' \subseteq Signed
           /\ \A d \in Controllers : stored[d] \subseteq stored'[d]
           /\ Kept' \subseteq Kept \cup {e}
<1>1. CASE stored' = [stored EXCEPT ![c] = @ \cup {e}] /\ UNCHANGED <<half, spent>>
  <2>1. /\ stored'[c] = stored[c] \cup {e}
        /\ \A d \in Controllers \ {c} : stored'[d] = stored[d]
        /\ stored' \in [Controllers -> SUBSET Signed]
    BY <1>1 DEF TypeOK
  <2> QED
    BY <1>1, <2>1 DEF TypeOK, Kept
<1>2. CASE UNCHANGED <<stored, spent>> /\ half' = half \cup {e}
  BY <1>2 DEF TypeOK, Kept
<1>3. CASE UNCHANGED <<stored, half>> /\ spent' = spent \cup {e}
  BY <1>3 DEF TypeOK, Kept
<1>4. CASE UNCHANGED <<stored, half, spent>>
  BY <1>4 DEF TypeOK, Kept
<1> QED
  BY <1>1, <1>2, <1>3, <1>4 DEF Handles, Accepts, AcceptsHalf, Refuses, Dies

LEMMA RecoverFacts ==
    ASSUME TypeOK, Recover
    PROVE  /\ stored' \in [Controllers -> SUBSET Signed]
           /\ half' \subseteq Signed
           /\ \A d \in Controllers : stored[d] \subseteq stored'[d]
           /\ Kept' \subseteq Kept
<1>1. PICK e \in half : /\ stored' = [stored EXCEPT ![Active] = @ \cup {e}]
                         /\ half' = half \ {e} /\ spent' = spent
  BY DEF Recover
<1>2. /\ stored'[Active] = stored[Active] \cup {e}
      /\ \A d \in Controllers \ {Active} : stored'[d] = stored[d]
      /\ stored' \in [Controllers -> SUBSET Signed]
  BY <1>1, ControllerAssumption DEF TypeOK
<1> QED
  BY <1>1, <1>2, ControllerAssumption DEF TypeOK, Kept

-----------------------------------------------------------------------------
(* Types *)

LEMMA TypeStep == TypeOK /\ [Next]_vars => TypeOK'
<1> SUFFICES ASSUME TypeOK, [Next]_vars PROVE TypeOK'
  OBVIOUS
<1>1. ASSUME NEW kind \in {"event", "bad"}, Append1(kind) PROVE TypeOK'
  <2>1. log' \in Seq({"event", "bad"})
    BY <1>1 DEF TypeOK, Append1
  <2> QED
    BY <1>1, <2>1 DEF TypeOK, Append1, files, pass, controllers
<1>2. CASE Start
  BY <1>2, SignedFields DEF TypeOK, Start, files, controllers
<1>3. CASE Stop
  BY <1>3 DEF TypeOK, Stop, files, controllers
<1>4. CASE Sign
  <2>1. current' \in Signed /\ current' # None
    BY <1>4, SignedType, SignedFields DEF TypeOK, Sign
  <2>2. lastSeq' \in Nat
    BY <1>4 DEF TypeOK, Sign
  <2> QED
    BY <1>4, <2>1, <2>2 DEF TypeOK, Sign, controllers
<1>5. CASE SavePending
  BY <1>5 DEF TypeOK, SavePending, controllers
<1>6. CASE Posted
  BY <1>6 DEF TypeOK, Posted, files, controllers
<1>7. CASE SaveCursor
  <2>1. cursor' \in Nat
    BY <1>7, SignedFields DEF TypeOK, SaveCursor
  <2> QED
    BY <1>7, <2>1 DEF TypeOK, SaveCursor, controllers
<1>8. CASE ClearPending
  BY <1>8 DEF TypeOK, ClearPending, controllers
<1>9. ASSUME NEW c \in Controllers, Answered(c) PROVE TypeOK'
  <2>1. current \in Signed /\ Handles(c, current)
    BY <1>9 DEF TypeOK, Answered, Handles
  <2>2. accepted' \in BOOLEAN
    BY <1>9 DEF TypeOK, Answered
  <2> QED
    BY <1>9, <2>1, <2>2, HandlesFacts DEF TypeOK, Answered, files
<1>10. ASSUME NEW c \in Controllers, Unanswered(c) PROVE TypeOK'
  <2>1. late' \subseteq Controllers \X Signed
    BY <1>10 DEF TypeOK, Unanswered
  <2> QED
    BY <1>10, <2>1 DEF TypeOK, Unanswered, files, controllers
<1>11. CASE Crash
  <2>1. late' \subseteq Controllers \X Signed
    BY <1>11 DEF TypeOK, Crash
  <2>2. crashes' \in Nat
    BY <1>11 DEF TypeOK, Crash
  <2> QED
    BY <1>11, <2>1, <2>2 DEF TypeOK, Crash, files, controllers
<1>12. CASE Recover
  BY <1>12, RecoverFacts DEF TypeOK, Recover, files, pass
<1>13. CASE Expire
  BY <1>13 DEF TypeOK, Expire, files, pass
<1>14. CASE LateArrival
  <2>1. PICK p \in late : Handles(p[1], p[2]) /\ late' = late \ {p}
    BY <1>14 DEF LateArrival, Handles
  <2> QED
    BY <1>14, <2>1, LateFields, HandlesFacts DEF TypeOK, LateArrival, files, pass
<1>15. CASE UNCHANGED vars
  BY <1>15 DEF TypeOK, vars
<1> QED
  BY <1>1, <1>2, <1>3, <1>4, <1>5, <1>6, <1>7, <1>8, <1>9, <1>10, <1>11, <1>12, <1>13, <1>14,
     <1>15 DEF Next, Pass

\* The files, the pass and what the controllers have keep their types, and the pass
\* has an envelope exactly between its signing and its end.
THEOREM TypeCorrect == Spec => []TypeOK
<1>1. Init => TypeOK
  <2> SUFFICES ASSUME Init PROVE TypeOK
    OBVIOUS
  <2>1. enforcing \in BOOLEAN
    BY ModeAssumption DEF Init
  <2>2. log \in Seq({"event", "bad"})
    BY DEF Init
  <2>3. accepted \in BOOLEAN
    BY DEF Init
  <2> QED
    BY <2>1, <2>2, <2>3 DEF Init, TypeOK
<1> QED
  BY <1>1, TypeStep, PTL DEF Spec

-----------------------------------------------------------------------------
(* Nothing is skipped *)

Recorded(e) == \E c \in Controllers : e \in stored[c]

\* The file of the pending envelope against the pass: what is posted is pending,
\* and is the line after the cursor, or the cursor's when that is already saved.
Resumable ==
    /\ pc \in {"read", "signed"} => pending = None
    /\ pc \in {"post", "save", "clear"} => current = pending
    /\ pc = "signed" => current.line = cursor + 1 /\ current.seq = lastSeq
    /\ pending # None => pending.line \in {cursor, cursor + 1} /\ pending.seq <= lastSeq
    /\ pc = "clear" => current.line = cursor

LEMMA ResumableStep == TypeOK /\ Resumable /\ [Next]_vars => Resumable'
<1> SUFFICES ASSUME TypeOK, Resumable, [Next]_vars PROVE Resumable'
  OBVIOUS
<1>t. /\ cursor \in Nat /\ lastSeq \in Nat
      /\ current # None => current \in Signed /\ current.line \in Nat \ {0} /\ current.seq \in Nat \ {0}
      /\ pending # None => pending \in Signed /\ pending.line \in Nat \ {0} /\ pending.seq \in Nat \ {0}
      /\ current = None <=> pc \in {"idle", "read"}
  BY SignedFields DEF TypeOK
<1>1. CASE UNCHANGED <<files, pc, current>>
  BY <1>1 DEF Resumable, files
<1>2. CASE Start
  BY <1>2, <1>t DEF Resumable, Start, files
<1>3. CASE Stop
  BY <1>3, <1>t DEF Resumable, Stop, files
<1>4. CASE Sign
  <2>1. current'.line = cursor + 1 /\ current'.seq = lastSeq + 1
    BY <1>4, <1>t, SignedType DEF Sign
  <2> QED
    BY <1>4, <1>t, <2>1 DEF Resumable, Sign
<1>5. CASE SavePending
  BY <1>5, <1>t DEF Resumable, SavePending
<1>6. CASE Posted
  BY <1>6, <1>t DEF Resumable, Posted, files
<1>7. CASE SaveCursor
  BY <1>7, <1>t DEF Resumable, SaveCursor
<1>8. CASE ClearPending
  BY <1>8, <1>t DEF Resumable, ClearPending
<1>9. CASE Crash
  BY <1>9, <1>t DEF Resumable, Crash, files
<1>10. ASSUME NEW c \in Controllers, Answered(c) \/ Unanswered(c)
       PROVE  UNCHANGED <<files, pc, current>>
  BY <1>10 DEF Answered, Unanswered
<1>11. ASSUME (\E kind \in {"event", "bad"} : Append1(kind)) \/ Recover \/ Expire \/ LateArrival
       PROVE  UNCHANGED <<files, pc, current>>
  BY <1>11 DEF Append1, Recover, Expire, LateArrival, pass
<1>12. UNCHANGED vars => UNCHANGED <<files, pc, current>>
  BY DEF vars, files
<1> QED
  BY <1>1, <1>2, <1>3, <1>4, <1>5, <1>6, <1>7, <1>8, <1>9, <1>10, <1>11, <1>12 DEF Next, Pass

\* What was accepted is recorded, before the cursor moves.
Delivered ==
    /\ pc = "post" /\ accepted => Recorded(current)
    /\ pc \in {"save", "clear"} => Recorded(current)

\* A controller never forgets.
LEMMA StaysRecorded ==
    ASSUME \A c \in Controllers : stored[c] \subseteq stored'[c]
    PROVE  \A e : Recorded(e) => Recorded(e)'
BY DEF Recorded

LEMMA StoredGrows ==
    ASSUME TypeOK, [Next]_vars
    PROVE  \A c \in Controllers : stored[c] \subseteq stored'[c]
<1>1. ASSUME NEW c \in Controllers, Answered(c)
      PROVE  \A d \in Controllers : stored[d] \subseteq stored'[d]
  <2>1. current \in Signed /\ Handles(c, current)
    BY <1>1 DEF TypeOK, Answered, Handles
  <2> QED
    BY <2>1, HandlesFacts
<1>2. CASE LateArrival
  <2>1. PICK p \in late : Handles(p[1], p[2])
    BY <1>2 DEF LateArrival, Handles
  <2> QED
    BY <2>1, LateFields, HandlesFacts
<1>3. CASE Recover
  BY <1>3, RecoverFacts
<1>4. CASE UNCHANGED stored
  BY <1>4
<1> QED
  BY <1>1, <1>2, <1>3, <1>4 DEF Next, Pass, Append1, Start, Stop, Sign, SavePending, Posted,
     SaveCursor, ClearPending, Unanswered, Crash, Expire, controllers, vars

LEMMA DeliveredStep ==
    TypeOK /\ Resumable /\ Delivered /\ NothingSkipped /\ [Next]_vars =>
        Delivered' /\ NothingSkipped'
<1> SUFFICES ASSUME TypeOK, Resumable, Delivered, NothingSkipped, [Next]_vars
             PROVE  Delivered' /\ NothingSkipped'
  OBVIOUS
<1>r. \A e : Recorded(e) => Recorded(e)'
  BY StoredGrows, StaysRecorded
<1>s. \A i \in 1 .. cursor : \E c \in Controllers : \E e \in stored'[c] : e.line = i
  BY StoredGrows DEF NothingSkipped
<1>k. cursor' = cursor => NothingSkipped'
  BY <1>s DEF NothingSkipped
<1>1. CASE UNCHANGED <<cursor, pc, current, accepted>>
  BY <1>1, <1>r, <1>k DEF Delivered
<1>2. CASE Start \/ Stop \/ Sign \/ SavePending \/ ClearPending \/ Crash
  <2>1. cursor' = cursor /\ pc' \notin {"save", "clear"} /\ (pc' = "post" => ~ accepted')
    BY <1>2 DEF Start, Stop, Sign, SavePending, ClearPending, Crash, files
  <2> QED
    BY <1>k, <2>1 DEF Delivered
<1>3. CASE Posted
  BY <1>3, <1>r, <1>k DEF Posted, Delivered, files
<1>4. ASSUME NEW c \in Controllers, Answered(c) PROVE Delivered' /\ NothingSkipped'
  <2>1. pc = "post" /\ UNCHANGED <<pc, current, cursor>> /\ current \in Signed
    BY <1>4 DEF Answered, files, TypeOK
  <2>2. CASE Accepts(c, current)
    <3>1. current \in stored'[c]
      BY <2>1, <2>2 DEF Accepts, Done, TypeOK
    <3> QED
      BY <1>k, <2>1, <3>1 DEF Delivered, Recorded
  <2>3. CASE ~ Accepts(c, current)
    <3>1. accepted' = accepted
      BY <1>4, <2>3 DEF Answered
    <3> QED
      BY <1>r, <1>k, <2>1, <3>1 DEF Delivered
  <2> QED
    BY <2>2, <2>3
<1>5. CASE SaveCursor
  <2>1. /\ pc = "save" /\ pc' = "clear" /\ current' = current /\ Recorded(current)
        /\ current \in Signed /\ current = pending /\ cursor \in Nat
    BY <1>5 DEF SaveCursor, Delivered, Resumable, TypeOK
  <2>2. current.line \in {cursor, cursor + 1} /\ current.line \in Nat
    BY <2>1, SignedFields DEF Resumable
  <2>3. cursor' = cursor \/ (cursor' = cursor + 1 /\ current.line = cursor + 1)
    BY <1>5, <2>1, <2>2 DEF SaveCursor
  <2>4. \A i \in 1 .. cursor' : \E c \in Controllers : \E e \in stored'[c] : e.line = i
    <3> SUFFICES ASSUME NEW i \in 1 .. cursor'
                 PROVE  \E c \in Controllers : \E e \in stored'[c] : e.line = i
      OBVIOUS
    <3>1. CASE i \in 1 .. cursor
      BY <1>s, <3>1
    <3>2. CASE i \notin 1 .. cursor
      <4>1. i = current.line
        BY <2>1, <2>3, <3>2
      <4>2. PICK c \in Controllers : current \in stored'[c]
        BY <1>r, <2>1 DEF Recorded
      <4> QED
        BY <4>1, <4>2
    <3> QED
      BY <3>1, <3>2
  <2>5. NothingSkipped'
    BY <2>4 DEF NothingSkipped
  <2> QED
    BY <1>r, <2>1, <2>5 DEF Delivered
<1>6. ASSUME NEW c \in Controllers, Unanswered(c) PROVE UNCHANGED <<cursor, pc, current, accepted>>
  BY <1>6 DEF Unanswered, files
<1>7. ASSUME (\E kind \in {"event", "bad"} : Append1(kind)) \/ Recover \/ Expire \/ LateArrival
      PROVE  UNCHANGED <<cursor, pc, current, accepted>>
  BY <1>7 DEF Append1, Recover, Expire, LateArrival, pass, files
<1>8. UNCHANGED vars => UNCHANGED <<cursor, pc, current, accepted>>
  BY DEF vars
<1> QED
  BY <1>1, <1>2, <1>3, <1>4, <1>5, <1>6, <1>7, <1>8 DEF Next, Pass

LEMMA ResumableHolds == Spec => []Resumable
<1>1. Init => Resumable
  BY DEF Init, Resumable
<1> QED
  BY <1>1, ResumableStep, TypeCorrect, PTL DEF Spec

\* The cursor never passes an event that no controller has, however many passes are
\* killed and answers lost, in either mode.
THEOREM NothingSkippedHolds == Spec => []NothingSkipped
<1>1. Init => Delivered /\ NothingSkipped
  BY DEF Init, Delivered, NothingSkipped
<1> QED
  BY <1>1, DeliveredStep, TypeCorrect, ResumableHolds, PTL DEF Spec

-----------------------------------------------------------------------------
(* Order *)

LEMMA SentFacts ==
    ASSUME TypeOK
    PROVE  /\ Sent \subseteq Signed
           /\ Sent = Kept \cup {p[2] : p \in late}
BY LateFields DEF TypeOK, Sent, Kept

\* Whatever is sent in a step was sent before or is the pending envelope.
LEMMA SentGrows ==
    ASSUME TypeOK, TypeOK', Resumable, [Next]_vars
    PROVE  Sent' \subseteq Sent \cup {pending}
<1>s. /\ Sent = Kept \cup {p[2] : p \in late}
      /\ Sent' = Kept' \cup {p[2] : p \in late'}
  <2>1. Sent' = Kept' \cup {p[2] : p \in late'}
    BY DEF Sent, Kept
  <2> QED
    BY <2>1, SentFacts
<1>p. pc = "post" => current = pending /\ current \in Signed
  BY DEF Resumable, TypeOK
<1>1. ASSUME Kept' \subseteq Kept \cup {pending}, late' \subseteq late
      PROVE  Sent' \subseteq Sent \cup {pending}
  BY <1>1, <1>s
<1>2. ASSUME Kept' = Kept, NEW C \in SUBSET Controllers,
             late' \subseteq late \cup {<<c, pending>> : c \in C}
      PROVE  Sent' \subseteq Sent \cup {pending}
  <2> SUFFICES ASSUME NEW e \in Sent', e \notin Kept PROVE e \in Sent \cup {pending}
    BY <1>s
  <2>1. PICK p \in late' : e = p[2]
    BY <1>s, <1>2
  <2>2. CASE p \in late
    BY <1>s, <2>1, <2>2
  <2>3. CASE p \in {<<c, pending>> : c \in C}
    BY <2>1, <2>3
  <2> QED
    BY <1>2, <2>2, <2>3
<1>3. ASSUME NEW c \in Controllers, Answered(c) PROVE Sent' \subseteq Sent \cup {pending}
  <2>1. pc = "post" /\ Handles(c, current) /\ late' = late
    BY <1>3 DEF Answered, Handles
  <2> QED
    BY <1>p, <1>1, <2>1, HandlesFacts
<1>4. ASSUME NEW c \in Controllers, Unanswered(c) PROVE Sent' \subseteq Sent \cup {pending}
  <2>1. Kept' = Kept
    BY <1>4 DEF Unanswered, controllers, Kept
  <2>2. late' \subseteq late \cup {<<d, pending>> : d \in {c}}
    BY <1>4, <1>p DEF Unanswered
  <2> QED
    BY <1>2, <2>1, <2>2
<1>5. CASE Crash
  <2>1. Kept' = Kept
    BY <1>5 DEF Crash, controllers, Kept
  <2>2. late' \subseteq late \cup {<<d, pending>> : d \in targets}
    BY <1>5, <1>p DEF Crash
  <2> QED
    BY <1>2, <2>1, <2>2 DEF TypeOK
<1>6. CASE LateArrival
  <2>1. PICK p \in late : Handles(p[1], p[2]) /\ late' = late \ {p}
    BY <1>6 DEF LateArrival, Handles
  <2>2. Kept' \subseteq Kept \cup {p[2]}
    BY <2>1, LateFields, HandlesFacts
  <2> QED
    BY <1>s, <2>1, <2>2
<1>7. CASE Recover
  <2>1. Kept' \subseteq Kept /\ late' = late
    BY <1>7, RecoverFacts DEF Recover
  <2> QED
    BY <1>1, <2>1
<1>8. CASE UNCHANGED <<stored, half, spent, late>>
  BY <1>8 DEF Sent
<1> QED
  BY <1>3, <1>4, <1>5, <1>6, <1>7, <1>8 DEF Next, Pass, Append1, Start, Stop, Sign, SavePending,
     Posted, SaveCursor, ClearPending, Expire, controllers, vars

\* Everything that was sent is behind the cursor, unless it is pending; the pending
\* envelope is the last, and so is one that is signed and not yet kept.
Ordered ==
    /\ SentInOrder
    /\ \A e \in Sent : e.seq <= lastSeq /\ (e.line <= cursor \/ e = pending)
    /\ pending # None =>
            \A e \in Sent \ {pending} : e.seq < pending.seq /\ e.line < pending.line
    /\ pc = "signed" => \A e \in Sent : e.seq < current.seq

LEMMA OrderedStep ==
    ASSUME TypeOK, TypeOK', Resumable, Ordered, [Next]_vars
    PROVE  Ordered'
<1>t. /\ cursor \in Nat /\ lastSeq \in Nat /\ cursor' \in Nat /\ lastSeq' \in Nat
      /\ pending # None => pending.line \in Nat /\ pending.seq \in Nat
      /\ current # None => current.line \in Nat /\ current.seq \in Nat
  BY SignedFields DEF TypeOK
<1>s. \A e \in Sent' : /\ e \in Sent \/ (e = pending /\ pending # None)
                       /\ e.line \in Nat /\ e.seq \in Nat
  <2> SUFFICES ASSUME NEW e \in Sent'
               PROVE  /\ e \in Sent \/ (e = pending /\ pending # None)
                      /\ e.line \in Nat /\ e.seq \in Nat
    OBVIOUS
  <2>1. e \in Signed
    BY LateFields DEF TypeOK, Sent
  <2> QED
    BY <2>1, SentGrows, SignedFields
<1>f. /\ cursor' >= cursor /\ lastSeq' >= lastSeq
      /\ \/ pending' = pending
         \/ SavePending
         \/ ClearPending
  <2>1. CASE SaveCursor
    BY <1>t, <2>1 DEF SaveCursor, TypeOK
  <2>2. CASE Sign
    BY <1>t, <2>2 DEF Sign
  <2>3. CASE SavePending \/ ClearPending
    BY <1>t, <2>3 DEF SavePending, ClearPending
  <2>4. CASE UNCHANGED files
    BY <1>t, <2>4 DEF files
  <2> QED
    BY <2>1, <2>2, <2>3, <2>4 DEF Next, Pass, Append1, Start, Stop, Posted, Answered, Unanswered,
       Crash, Recover, Expire, LateArrival, vars, files
<1>1. SentInOrder'
  <2> SUFFICES ASSUME NEW e \in Sent', NEW f \in Sent'
               PROVE  e.seq < f.seq <=> e.line < f.line
    BY DEF SentInOrder
  <2>1. CASE e \in Sent /\ f \in Sent
    BY <2>1 DEF Ordered, SentInOrder
  <2>2. CASE e = f
    BY <1>s, <2>2
  <2>3. CASE e # f /\ (e \notin Sent \/ f \notin Sent)
    BY <1>s, <1>t, <2>3 DEF Ordered
  <2> QED
    BY <2>1, <2>2, <2>3
<1>2. ASSUME NEW e \in Sent' PROVE e.seq <= lastSeq' /\ (e.line <= cursor' \/ e = pending')
  <2>1. e.seq <= lastSeq
    BY <1>s, <1>2 DEF Ordered, Resumable
  <2>2. e.line <= cursor \/ e = pending
    BY <1>s, <1>2 DEF Ordered
  <2>3. CASE pending' = pending
    BY <1>s, <1>t, <1>f, <1>2, <2>1, <2>2, <2>3
  <2>4. CASE SavePending
    <3>1. pending = None
      BY <2>4 DEF SavePending, Resumable
    <3>2. e.line <= cursor
      BY <1>s, <1>2, <2>2, <3>1, SentFacts, SignedFields
    <3> QED
      BY <1>s, <1>t, <1>f, <1>2, <2>1, <3>2
  <2>5. CASE ClearPending
    <3>1. pending # None => pending.line = cursor
      BY <2>5 DEF ClearPending, Resumable
    <3>2. e.line <= cursor
      BY <1>s, <1>t, <1>2, <2>2, <3>1, SentFacts, SignedFields
    <3> QED
      BY <1>s, <1>t, <1>f, <1>2, <2>1, <3>2
  <2> QED
    BY <1>f, <2>3, <2>4, <2>5
<1>3. ASSUME pending' # None, NEW e \in Sent', e # pending'
      PROVE  e.seq < pending'.seq /\ e.line < pending'.line
  <2>1. CASE pending' = pending
    BY <1>s, <1>3, <2>1 DEF Ordered
  <2>2. CASE SavePending
    <3>1. /\ pending = None /\ pending' = current
          /\ current.line = cursor + 1 /\ current.seq = lastSeq
      BY <2>2 DEF SavePending, Resumable
    <3>2. e \in Sent /\ e.line <= cursor /\ e.seq < current.seq
      BY <1>s, <1>3, <2>2, <3>1, SentFacts, SignedFields DEF Ordered, SavePending
    <3> QED
      BY <1>s, <1>t, <1>3, <3>1, <3>2
  <2>3. CASE ClearPending
    BY <1>3, <2>3 DEF ClearPending
  <2> QED
    BY <1>f, <2>1, <2>2, <2>3
<1>4. ASSUME pc' = "signed", NEW e \in Sent' PROVE e.seq < current'.seq
  <2>1. CASE Sign
    <3>1. current'.seq = lastSeq + 1
      BY <2>1, <1>t, SignedType DEF Sign, TypeOK
    <3>2. pending = None
      BY <2>1 DEF Sign, Resumable
    <3> QED
      BY <1>s, <1>t, <1>4, <3>1, <3>2 DEF Ordered
  <2>2. CASE ~ Sign
    <3>1. pc = "signed" /\ current' = current
      BY <1>4, <2>2 DEF Next, Pass, Append1, Start, Stop, SavePending, Posted, SaveCursor,
         ClearPending, Answered, Unanswered, Crash, Recover, Expire, LateArrival, vars, pass
    <3>2. pending = None
      BY <3>1 DEF Resumable
    <3> QED
      BY <1>s, <1>4, <3>1, <3>2 DEF Ordered
  <2> QED
    BY <2>1, <2>2
<1> QED
  BY <1>1, <1>2, <1>3, <1>4 DEF Ordered

\* One envelope for each event, in the order of the log: no event is sent under two
\* sequences and no sequence twice, whatever is killed, lost or late.
THEOREM SentInOrderHolds == Spec => []SentInOrder
<1>1. Init => Ordered
  BY DEF Init, Ordered, Sent, SentInOrder
<1>2. Ordered => SentInOrder
  BY DEF Ordered
<1> QED
  BY <1>1, <1>2, OrderedStep, TypeCorrect, ResumableHolds, PTL DEF Spec
=============================================================================
