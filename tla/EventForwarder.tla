--------------------------- MODULE EventForwarder ---------------------------
(***************************************************************************)
(* The event forwarder of a host: it reads the log the OMP extension       *)
(* appends to, signs one envelope per line, keeps it in a pending file     *)
(* until a controller accepts it, and only then moves its cursor.  A pass  *)
(* may be killed between any two writes; a post may be lost, handled with  *)
(* its answer lost, or handled long after the forwarder gave up on it.     *)
(*                                                                         *)
(* The controllers are seen from here as far as their answers depend on    *)
(* what they stored: an observe-only controller ingests each fresh         *)
(* envelope, the active one of an enforcing pair replicates it as an       *)
(* operation (module Controller has that in detail) and the other refuses. *)
(***************************************************************************)
EXTENDS Naturals, Sequences, ReplayWindow

CONSTANTS
    Controllers,   \* the controllers every envelope is posted to
    Active,        \* the active one, when they enforce
    Modes,         \* whether the controllers enforce: TRUE, or FALSE: observe only
    MayExpire,     \* whether an envelope can outlive its time to live
    MayDie,        \* whether the active one can be killed handling a post
    MaxLines,      \* bound: lines the extension writes
    MaxCrashes,    \* bound: killed passes
    None

ASSUME ControllerAssumption == Active \in Controllers
ASSUME ModeAssumption == Modes \cup {MayExpire, MayDie} \subseteq BOOLEAN
ASSUME ForwarderBounds == MaxLines \in Nat /\ MaxCrashes \in Nat

\* A signed event is known by the line it came from and by its sequence.
Signed == [line : Nat \ {0}, seq : Nat \ {0}]

ASSUME NoneAssumption == None \notin Signed

VARIABLES
    enforcing,  \* the controllers' mode; fixed
    log,        \* modelctl-events.jsonl: what each line parses as
    cursor,     \* the cursor file: lines forwarded
    pending,    \* the pending file
    lastSeq,    \* the sequence file
    pc,         \* where the pass is, "idle" between two passes
    current,    \* the envelope the pass is delivering
    targets,    \* controllers it has still to post to
    accepted,   \* one of them answered 2xx
    crashes,    \* passes killed
    stored,     \* stored[c]: envelopes whose event c records
    half,       \* envelopes the active committed and its peer did not yet
    spent,      \* envelopes it admitted and lost when it was killed
    expired,    \* envelopes past their expiry
    late        \* posts given up by the forwarder that may still arrive

files == <<cursor, pending, lastSeq>>
pass == <<pc, current, targets, accepted>>
controllers == <<enforcing, stored, half, spent, expired>>
vars == <<enforcing, log, cursor, pending, lastSeq, pc, current, targets, accepted,
          crashes, stored, half, spent, expired, late>>

TypeOK ==
    /\ enforcing \in BOOLEAN
    /\ log \in Seq({"event", "bad"})
    /\ cursor \in Nat
    /\ pending \in Signed \cup {None}
    /\ lastSeq \in Nat
    /\ pc \in {"idle", "read", "signed", "post", "save", "clear"}
    /\ current \in Signed \cup {None}
    /\ current = None <=> pc \in {"idle", "read"}
    /\ targets \subseteq Controllers
    /\ accepted \in BOOLEAN
    /\ crashes \in Nat
    /\ stored \in [Controllers -> SUBSET Signed]
    /\ half \subseteq Signed
    /\ spent \subseteq Signed
    /\ expired \subseteq Signed
    /\ late \subseteq Controllers \X Signed

Init ==
    /\ enforcing \in Modes
    /\ log = <<>>
    /\ cursor = 0
    /\ pending = None
    /\ lastSeq = 0
    /\ pc = "idle"
    /\ current = None
    /\ targets = {}
    /\ accepted = FALSE
    /\ crashes = 0
    /\ stored = [c \in Controllers |-> {}]
    /\ half = {}
    /\ spent = {}
    /\ expired = {}
    /\ late = {}

-----------------------------------------------------------------------------
(* What a controller does with a post of e, and answers *)

\* An envelope whose operation is already replicated is answered 200 again.
\* Mutant: it is refused as a replay.
NeverDone(c, e) == FALSE

Done(c, e) == enforcing /\ e \in stored[c]

FreshAt(c, e) == FreshSeq(e.seq, {f.seq : f \in stored[c] \cup half \cup spent})

\* The controller records the event and answers 2xx, or had recorded it.
Accepts(c, e) ==
    /\ e \notin expired
    /\ enforcing => c = Active
    /\ \/ Done(c, e) /\ UNCHANGED stored
       \/ /\ FreshAt(c, e)
          /\ stored' = [stored EXCEPT ![c] = @ \cup {e}]
    /\ UNCHANGED <<half, spent>>

\* The active one commits locally, cannot replicate and answers 503.
AcceptsHalf(c, e) ==
    /\ enforcing /\ c = Active
    /\ e \notin expired
    /\ FreshAt(c, e)
    /\ half' = half \cup {e}
    /\ UNCHANGED <<stored, spent>>

\* It refuses: expired, replayed, not active, still pending, or the peer did
\* not prepare.
Refuses(c, e) ==
    /\ \/ e \in expired
       \/ ~ Done(c, e) /\ (enforcing \/ ~ FreshAt(c, e))
    /\ UNCHANGED <<stored, half, spent>>

\* The active one spends the sequence and is killed before it commits.
Dies(c, e) ==
    /\ MayDie
    /\ enforcing /\ c = Active
    /\ e \notin expired
    /\ FreshAt(c, e)
    /\ spent' = spent \cup {e}
    /\ UNCHANGED <<stored, half>>

\* The active controller restarts and replicates a pending operation.  The peer
\* may refuse to prepare it, and then the operation stays as it is.
Recover ==
    /\ \E e \in half :
         /\ stored' = [stored EXCEPT ![Active] = @ \cup {e}]
         /\ half' = half \ {e}
    /\ UNCHANGED <<log, files, pass, crashes, enforcing, spent, expired, late>>

Expire ==
    /\ MayExpire
    /\ pending # None
    /\ expired' = expired \cup {pending}
    /\ UNCHANGED <<log, files, pass, crashes, enforcing, stored, half, spent, late>>

\* A post the forwarder gave up on is handled; nobody reads the answer.
LateArrival ==
    /\ \E p \in late :
         /\ \/ Accepts(p[1], p[2]) \/ AcceptsHalf(p[1], p[2])
            \/ Refuses(p[1], p[2]) \/ Dies(p[1], p[2])
         /\ late' = late \ {p}
    /\ UNCHANGED <<log, files, pass, crashes, enforcing, expired>>

-----------------------------------------------------------------------------
(* forward: one pass *)

\* The extension appends a line; one that fails validation blocks the log.
Append1(kind) ==
    /\ Len(log) < MaxLines
    /\ log' = Append(log, kind)
    /\ UNCHANGED <<files, pass, crashes, controllers, late>>

\* Mutant: the retry forgets which envelope it retries.
StartEmpty ==
    /\ pc = "idle"
    /\ pc' = IF pending # None THEN "post" ELSE "read"
    /\ targets' = IF pending # None THEN Controllers ELSE targets
    /\ accepted' = FALSE
    /\ UNCHANGED <<log, files, current, crashes, controllers, late>>

\* The pass retries what is pending first.
Start ==
    /\ pc = "idle"
    /\ IF pending # None
       THEN pc' = "post" /\ current' = pending /\ targets' = Controllers
       ELSE pc' = "read" /\ UNCHANGED <<current, targets>>
    /\ accepted' = FALSE
    /\ UNCHANGED <<log, files, crashes, controllers, late>>

\* No line is left, or the next one does not parse: the pass ends.
Stop ==
    /\ pc = "read"
    /\ cursor < Len(log) => log[cursor + 1] = "bad"
    /\ pc' = "idle"
    /\ UNCHANGED <<log, files, current, targets, accepted, crashes, controllers, late>>

\* The next sequence is on disk before the envelope exists.
Sign ==
    /\ pc = "read"
    /\ cursor < Len(log)
    /\ log[cursor + 1] = "event"
    /\ lastSeq' = lastSeq + 1
    /\ current' = [line |-> cursor + 1, seq |-> lastSeq + 1]
    /\ pc' = "signed"
    /\ UNCHANGED <<log, cursor, pending, targets, accepted, crashes, controllers, late>>

\* Mutant: the envelope is posted before it is kept.
PostUnsaved ==
    /\ pc = "signed"
    /\ pc' = "post"
    /\ targets' = Controllers
    /\ accepted' = FALSE
    /\ UNCHANGED <<log, files, current, crashes, controllers, late>>

\* The envelope is on disk before anyone sees it.
SavePending ==
    /\ pc = "signed"
    /\ pending' = current
    /\ pc' = "post"
    /\ targets' = Controllers
    /\ accepted' = FALSE
    /\ UNCHANGED <<log, cursor, lastSeq, current, crashes, controllers, late>>

\* c handles the post and its answer comes back.
Answered(c) ==
    /\ pc = "post"
    /\ c \in targets
    /\ targets' = targets \ {c}
    /\ \/ Accepts(c, current) /\ accepted' = TRUE
       \/ (AcceptsHalf(c, current) \/ Refuses(c, current)) /\ UNCHANGED accepted
    /\ UNCHANGED <<log, files, pc, current, crashes, enforcing, expired, late>>

\* No answer: the post is lost, or it arrives after the timeout.
Unanswered(c) ==
    /\ pc = "post"
    /\ c \in targets
    /\ targets' = targets \ {c}
    /\ late' \in {late, late \cup {<<c, current>>}}
    /\ UNCHANGED <<log, files, pc, current, accepted, crashes, controllers>>

\* Mutant: the event counts as forwarded once every controller was tried.
PostedAll ==
    /\ pc = "post"
    /\ targets = {}
    /\ pc' = "save"
    /\ UNCHANGED <<log, files, current, targets, accepted, crashes, controllers, late>>

\* Every controller was tried: go on if one accepted, else the pass ends and
\* the envelope stays pending.
Posted ==
    /\ pc = "post"
    /\ targets = {}
    /\ IF accepted
       THEN pc' = "save" /\ UNCHANGED current
       ELSE pc' = "idle" /\ current' = None
    /\ UNCHANGED <<log, files, targets, accepted, crashes, controllers, late>>

SaveCursor ==
    /\ pc = "save"
    /\ cursor' = IF current.line > cursor THEN current.line ELSE cursor
    /\ pc' = "clear"
    /\ UNCHANGED <<log, pending, lastSeq, current, targets, accepted, crashes,
                   controllers, late>>

ClearPending ==
    /\ pc = "clear"
    /\ pending' = None
    /\ pc' = "read"
    /\ current' = None
    /\ UNCHANGED <<log, cursor, lastSeq, targets, accepted, crashes,
                   controllers, late>>

\* The pass is killed; its files stay, and so does a post under way.
Crash ==
    /\ pc # "idle"
    /\ crashes < MaxCrashes
    /\ crashes' = crashes + 1
    /\ pc' = "idle"
    /\ current' = None
    /\ late' \in {late} \cup
          (IF pc = "post" THEN {late \cup {<<c, current>>} : c \in targets} ELSE {})
    /\ UNCHANGED <<log, files, targets, accepted, controllers>>

-----------------------------------------------------------------------------
Pass ==
    \/ Start \/ Stop \/ Sign \/ SavePending \/ Posted \/ SaveCursor \/ ClearPending
    \/ \E c \in Controllers : Answered(c) \/ Unanswered(c)

Next ==
    \/ \E kind \in {"event", "bad"} : Append1(kind)
    \/ Pass
    \/ Crash
    \/ Recover
    \/ Expire
    \/ LateArrival

Spec == Init /\ [][Next]_vars

\* The pass runs on a timer, and a controller asked again and again accepts some
\* time if it can.  No recovery is promised: nothing schedules a restart.
FairSpec ==
    /\ Spec
    /\ WF_vars(Pass)
    /\ \A c \in Controllers : SF_vars(Answered(c) /\ Accepts(c, current))

-----------------------------------------------------------------------------
(* What the forwarder promises *)

\* The cursor never passes an event no controller recorded, wherever a pass is
\* killed and whichever answers are lost.
NothingSkipped ==
    \A i \in 1 .. cursor : \E c \in Controllers : \E e \in stored[c] : e.line = i

\* Everything that left the host, arrived or still on its way.
Sent == (UNION {stored[c] : c \in Controllers}) \cup half \cup spent \cup {p[2] : p \in late}

\* One envelope per event, in the order of the log: retries after crashes never
\* sign an event that was sent again, nor reuse a sequence.
SentInOrder ==
    \A e, f \in Sent : e.seq < f.seq <=> e.line < f.line

Ready(i) == i <= Len(log) /\ \A j \in 1 .. i : log[j] = "event"

\* The envelope that the forwarder waits for can be accepted no more, or not yet:
\* it expired, its sequence was spent without a record, or the active controller
\* has committed it and its peer has not.
Stuck == pending \in expired \cup spent \cup half

Forwarded(i) == cursor >= i \/ []Stuck

\* An enforcing pair gets every line that has no malformed line before it,
\* whatever answers are lost, for the retry of what is replicated is answered 200;
\* unless from some time on, for ever, the pending envelope is one that cannot be
\* accepted.  A recovery that comes late ends the wait (forward, mutate).
AllForwarded == \A i \in 1 .. MaxLines : enforcing /\ Ready(i) ~> Forwarded(i)

\* The same of controllers in any mode.
RetryForwards == \A i \in 1 .. MaxLines : Ready(i) ~> Forwarded(i)
=============================================================================
