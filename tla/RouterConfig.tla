---------------------------- MODULE RouterConfig ----------------------------
(***************************************************************************)
(* LiteLLM's configuration file and the two programs that rewrite the      *)
(* managed region of it through the guarded adapter: the receiver, which   *)
(* brings a policy from the controllers and keeps it as the last known     *)
(* good one, and the promotion pipeline, which decides about a candidate   *)
(* route and then activates it or rolls back.                              *)
(*                                                                         *)
(* An apply takes a file lock, compares the file with what its caller has  *)
(* seen, keeps a backup, writes, restarts LiteLLM, verifies and leaves a   *)
(* receipt; a failure restores the backup and restarts again.  Every step  *)
(* can fail, and the process can be killed between any two.                *)
(*                                                                         *)
(* A bundle stands for a policy with its routes and for the region that is *)
(* rendered from it; a digest is the content it was taken of.  Backups are *)
(* named by the day and the bundle: this is one day.                       *)
(***************************************************************************)
EXTENDS Integers, FiniteSets

CONSTANTS
    active, standby,     \* the two controllers
    Policies,            \* policies a receiver may be offered
    Sequence,            \* the sequence of each policy's envelope
    Routes,              \* route targets of the pipeline
    Initial,             \* the region found at the start, and its route
    receiver, pipeline,  \* the two programs
    MaxFaults,           \* bound: steps that fail, and kills
    MaxEdits,            \* bound: edits outside the managed region
    MaxPublished,        \* bound: times a controller offers another policy
    MaxDecisions,        \* bound: promotions asked for
    Down, None

Programs == {receiver, pipeline}
Controllers == {active, standby}
Bundles == Policies \cup Routes \cup {Initial}
Content == [managed : Bundles, rest : 0 .. MaxEdits]
Outcomes == {"promoted", "rolled-back", "blocked"}

ASSUME BundleAssumption ==
    /\ Sequence \in [Policies -> Nat]
    /\ Policies \cap Routes = {}
    /\ Initial \notin Policies \cup Routes
    /\ Down \notin Content
ASSUME ProgramAssumption ==
    /\ receiver # pipeline
    /\ active # standby
ASSUME RouterBounds == {MaxFaults, MaxEdits, MaxPublished, MaxDecisions} \subseteq Nat

\* What an apply is asked for, what it found on disk and loaded under the lock,
\* and whether it may have restarted LiteLLM.
Work == [bundle : Bundles, expected : Content, found : Content \cup {None},
         ran : Content \cup {Down, None}, attempted : BOOLEAN]

ASSUME NoneAssumption == None \notin Programs \cup Bundles \cup Content \cup Work

VARIABLES
    file,       \* the configuration on disk
    running,    \* what LiteLLM has loaded
    backups,    \* the backup of each bundle
    owner,      \* who holds the lock of the configuration
    at,         \* where each program is
    work,       \* what it applies
    current,    \* PolicyStore's file: the last known good policy
    known,      \* the same in the receiver's memory
    candidates, \* the receiver's candidates
    log,        \* decisions in the durable log
    route,      \* LiteLLMRouteTable.current_route
    digest,     \* LiteLLMRouteTable.expected_config_digest
    offered,    \* the policy each controller serves
    verified,   \* history: bundles whose apply has succeeded
    counts      \* faults, edits, publications and decisions so far

disk == <<file, running, backups>>
recv == <<current, known, candidates>>
pipe == <<log, route, digest>>
vars == <<file, running, backups, owner, at, work, current, known, candidates,
          log, route, digest, offered, verified, counts>>

Places == {"idle", "active", "standby", "choose", "wait", "write", "restart", "smoke",
           "restore", "rerun", "rolled_back", "rollback_failed", "done"}

Bounds == [faults |-> MaxFaults, edits |-> MaxEdits,
           published |-> MaxPublished, decisions |-> MaxDecisions]

Unlocked == {"idle", "active", "standby", "choose", "wait", "done"}

\* A program has something to apply from its choice to its end, and the lock
\* from the backup to the receipt.
Placed ==
    \A p \in Programs :
        /\ work[p] # None <=> at[p] \notin {"idle", "active", "standby", "choose"}
        /\ owner = p <=> at[p] \notin Unlocked

TypeOK ==
    /\ file \in Content
    /\ running \in Content \cup {Down}
    /\ backups \in [Bundles -> Content \cup {None}]
    /\ owner \in Programs \cup {None}
    /\ at \in [Programs -> Places]
    /\ work \in [Programs -> Work \cup {None}]
    /\ current \in Policies \cup {None}
    /\ known \in Policies \cup {None}
    /\ candidates \subseteq Policies
    /\ log \subseteq [outcome : Outcomes, target : Routes]
    /\ route \in Routes \cup {Initial}
    /\ digest \in Content
    /\ offered \in [Controllers -> Policies \cup {None}]
    /\ verified \subseteq Bundles
    /\ counts \in [DOMAIN Bounds -> Nat]
    /\ Placed

Init ==
    /\ file = [managed |-> Initial, rest |-> 0]
    /\ running = file
    /\ backups = [b \in Bundles |-> None]
    /\ owner = None
    /\ at = [p \in Programs |-> "idle"]
    /\ work = [p \in Programs |-> None]
    /\ current = None
    /\ known = None
    /\ candidates = {}
    /\ log = {}
    /\ route = Initial
    /\ digest = file
    /\ offered = [c \in Controllers |-> None]
    /\ verified = {}
    /\ counts = [b \in DOMAIN Bounds |-> 0]

Count(b) ==
    /\ counts[b] < Bounds[b]
    /\ counts' = [counts EXCEPT ![b] = @ + 1]

Goes(p, from, to) == at[p] = from /\ at' = [at EXCEPT ![p] = to]

-----------------------------------------------------------------------------
(* apply *)

Asked(b, content) ==
    [bundle |-> b, expected |-> content, found |-> None, ran |-> None, attempted |-> FALSE]

Rendered(p) == [work[p].found EXCEPT !.managed = work[p].bundle]

Backup(p) == backups[work[p].bundle]

\* Mutant: a backup of the same name is kept.
TakeKeepsBackup(p) ==
    /\ Goes(p, "wait", "write")
    /\ owner = None
    /\ file = work[p].expected
    /\ owner' = p
    /\ work' = [work EXCEPT ![p].found = file, ![p].ran = running]
    /\ backups' = [backups EXCEPT ![work[p].bundle] = IF @ = None THEN file ELSE @]
    /\ UNCHANGED <<file, running, recv, pipe, offered, verified, counts>>

\* Lock, comparison and backup.
Take(p) ==
    /\ Goes(p, "wait", "write")
    /\ owner = None
    /\ file = work[p].expected
    /\ owner' = p
    /\ work' = [work EXCEPT ![p].found = file, ![p].ran = running]
    /\ backups' = [backups EXCEPT ![work[p].bundle] = file]
    /\ UNCHANGED <<file, running, recv, pipe, offered, verified, counts>>

Drops(p) == work' = [work EXCEPT ![p] = None]

\* The file is not the one the caller has seen, which ends with the error.
Declines(p) ==
    /\ Goes(p, "wait", "idle")
    /\ owner = None
    /\ file # work[p].expected
    /\ Drops(p)
    /\ UNCHANGED <<disk, owner, recv, pipe, offered, verified, counts>>

\* Rendering or keeping the backup fails.
CannotStart(p) ==
    /\ Goes(p, "wait", "idle")
    /\ owner = None
    /\ Count("faults")
    /\ Drops(p)
    /\ UNCHANGED <<disk, owner, recv, pipe, offered, verified>>

Write(p) ==
    /\ Goes(p, "write", "restart")
    /\ file' = Rendered(p)
    /\ work' = [work EXCEPT ![p].attempted = TRUE]
    /\ UNCHANGED <<running, backups, owner, recv, pipe, offered, verified, counts>>

\* The write fails, perhaps when the file is already replaced.
WriteFails(p) ==
    /\ Goes(p, "write", "restore")
    /\ Count("faults")
    /\ file' \in {file, Rendered(p)}
    /\ UNCHANGED <<running, backups, owner, work, recv, pipe, offered, verified>>

Restarted(p) ==
    /\ Goes(p, "restart", "smoke")
    /\ running' = file
    /\ UNCHANGED <<file, backups, owner, work, recv, pipe, offered, verified, counts>>

RestartFails(p) ==
    /\ Goes(p, "restart", "restore")
    /\ Count("faults")
    /\ running' \in {running, file, Down}
    /\ UNCHANGED <<file, backups, owner, work, recv, pipe, offered, verified>>

\* The verification, or the receipt of the success, fails.
Unverified(p) ==
    /\ Goes(p, "smoke", "restore")
    /\ Count("faults")
    /\ UNCHANGED <<disk, owner, work, recv, pipe, offered, verified>>

\* The new distribution is verified, the receipt written, the lock released.
Succeeds(p) ==
    /\ Goes(p, "smoke", "done")
    /\ owner' = None
    /\ verified' = verified \cup {work[p].bundle}
    /\ UNCHANGED <<disk, work, recv, pipe, offered, counts>>

\* Mutant: LiteLLM is not restarted on what was restored.
RestoreOnly(p) ==
    /\ Goes(p, "restore", "rolled_back")
    /\ file' = Backup(p)
    /\ UNCHANGED <<running, backups, owner, work, recv, pipe, offered, verified, counts>>

\* The backup is restored, and LiteLLM restarted if it may have been before.
Restore(p) ==
    /\ Goes(p, "restore", IF work[p].attempted THEN "rerun" ELSE "rolled_back")
    /\ file' = Backup(p)
    /\ UNCHANGED <<running, backups, owner, work, recv, pipe, offered, verified, counts>>

RestoreFails(p) ==
    /\ Goes(p, "restore", "rollback_failed")
    /\ Count("faults")
    /\ file' \in {file, Backup(p)}
    /\ UNCHANGED <<running, backups, owner, work, recv, pipe, offered, verified>>

Rerun(p) ==
    /\ Goes(p, "rerun", "rolled_back")
    /\ running' = file
    /\ UNCHANGED <<file, backups, owner, work, recv, pipe, offered, verified, counts>>

RerunFails(p) ==
    /\ Goes(p, "rerun", "rollback_failed")
    /\ Count("faults")
    /\ running' \in {running, file, Down}
    /\ UNCHANGED <<file, backups, owner, work, recv, pipe, offered, verified>>

\* Mutant: the lock is kept.
RaiseLocked(p) ==
    /\ Goes(p, "rolled_back", "idle") \/ Goes(p, "rollback_failed", "idle")
    /\ Drops(p)
    /\ UNCHANGED <<disk, owner, recv, pipe, offered, verified, counts>>

\* The failure's receipt is tried and the lock released; the caller ends with
\* the error.
Raise(p) ==
    /\ Goes(p, "rolled_back", "idle") \/ Goes(p, "rollback_failed", "idle")
    /\ owner' = None
    /\ Drops(p)
    /\ UNCHANGED <<disk, recv, pipe, offered, verified, counts>>

-----------------------------------------------------------------------------
(* Receiver.sync_once *)

SequenceOf(p) == IF p = None THEN -1 ELSE Sequence[p]

\* The process starts and loads the last known good policy.
Start ==
    /\ Goes(receiver, "idle", "active")
    /\ known' = current
    /\ UNCHANGED <<disk, owner, work, current, candidates, pipe, offered, verified, counts>>

\* A controller answers with a policy that verifies, or with none.
Fetch(c, from, to) ==
    /\ Goes(receiver, from, to)
    /\ candidates' = candidates \cup ({offered[c]} \ {None})
    /\ UNCHANGED <<disk, owner, work, current, known, pipe, offered, verified, counts>>

\* It does not answer, or with what is refused.
FetchFails(from, to) ==
    /\ Goes(receiver, from, to)
    /\ Count("faults")
    /\ UNCHANGED <<disk, owner, work, recv, pipe, offered, verified>>

SplitBrain == \E p, q \in candidates : p # q /\ Sequence[p] = Sequence[q]

Highest == {p \in candidates : \A q \in candidates : Sequence[q] <= Sequence[p]}

\* Mutant: an equal sequence is an update.
UpdatesEqual ==
    IF SplitBrain THEN {} ELSE {p \in Highest \ {known} : Sequence[p] >= SequenceOf(known)}

\* Mutant: only the next sequence is an update.
UpdatesNext ==
    IF SplitBrain THEN {} ELSE {p \in Highest : Sequence[p] = SequenceOf(known) + 1}

Updates == IF SplitBrain THEN {} ELSE {p \in Highest : Sequence[p] > SequenceOf(known)}

Ends == known' = None /\ candidates' = {}

NoUpdate ==
    /\ Goes(receiver, "choose", "idle")
    /\ Updates = {}
    /\ Ends
    /\ UNCHANGED <<disk, owner, work, current, pipe, offered, verified, counts>>

\* Mutant: the policy is kept as the last known good one before it is applied.
ChooseKept ==
    /\ Goes(receiver, "choose", "wait")
    /\ \E p \in Updates :
         work' = [work EXCEPT ![receiver] = Asked(p, file)] /\ current' = p
    /\ Ends
    /\ UNCHANGED <<disk, owner, pipe, offered, verified, counts>>

\* The file is looked at and the policy applied.
Choose ==
    /\ Goes(receiver, "choose", "wait")
    /\ \E p \in Updates : work' = [work EXCEPT ![receiver] = Asked(p, file)]
    /\ Ends
    /\ UNCHANGED <<disk, owner, current, pipe, offered, verified, counts>>

\* The policy becomes the last known good one after it is applied.
Commit ==
    /\ Goes(receiver, "done", "idle")
    /\ current' = work[receiver].bundle
    /\ Drops(receiver)
    /\ UNCHANGED <<disk, owner, known, candidates, pipe, offered, verified, counts>>

\* It has expired, or the write fails, perhaps when the file is replaced.
CommitFails ==
    /\ Goes(receiver, "done", "idle")
    /\ Count("faults")
    /\ current' \in {current, work[receiver].bundle}
    /\ Drops(receiver)
    /\ UNCHANGED <<disk, owner, known, candidates, pipe, offered, verified>>

-----------------------------------------------------------------------------
(* PromotionPipeline.run, CanaryRunner.apply, LiteLLMRouteTable *)

\* Mutant: the route is current before it is applied.
DecideRoute(r) ==
    /\ Goes(pipeline, "idle", "wait")
    /\ Count("decisions")
    /\ \E outcome \in {"promoted", "rolled-back"} :
         log' = log \cup {[outcome |-> outcome, target |-> r]}
    /\ work' = [work EXCEPT ![pipeline] = Asked(r, digest)]
    /\ route' = r
    /\ UNCHANGED <<disk, owner, recv, digest, offered, verified>>

\* Mutant: the decision is not written before its route is applied.
DecideUnlogged(r) ==
    /\ Goes(pipeline, "idle", "wait")
    /\ Count("decisions")
    /\ work' = [work EXCEPT ![pipeline] = Asked(r, digest)]
    /\ UNCHANGED <<disk, owner, recv, pipe, offered, verified>>

\* A decision is written; a promotion then activates the candidate's route, a
\* regression applies the rollback target.
Decide(r) ==
    /\ Goes(pipeline, "idle", "wait")
    /\ Count("decisions")
    /\ \E outcome \in {"promoted", "rolled-back"} :
         log' = log \cup {[outcome |-> outcome, target |-> r]}
    /\ work' = [work EXCEPT ![pipeline] = Asked(r, digest)]
    /\ UNCHANGED <<disk, owner, recv, route, digest, offered, verified>>

\* A gate fails: the decision is written and nothing else happens.
Block(r) ==
    /\ at[pipeline] = "idle"
    /\ Count("decisions")
    /\ log' = log \cup {[outcome |-> "blocked", target |-> r]}
    /\ UNCHANGED <<disk, owner, at, work, recv, route, digest, offered, verified>>

Activated ==
    /\ Goes(pipeline, "done", "idle")
    /\ route' = work[pipeline].bundle
    /\ digest' = Rendered(pipeline)
    /\ Drops(pipeline)
    /\ UNCHANGED <<disk, owner, recv, log, offered, verified, counts>>

-----------------------------------------------------------------------------
(* Around them *)

\* A program is killed, and the lock is free.
Killed(p) ==
    /\ at[p] # "idle"
    /\ Count("faults")
    /\ at' = [at EXCEPT ![p] = "idle"]
    /\ Drops(p)
    /\ owner' = IF owner = p THEN None ELSE owner
    /\ UNCHANGED <<disk, log, offered, verified>>

KillReceiver ==
    /\ Killed(receiver)
    /\ Ends
    /\ UNCHANGED <<current, route, digest>>

\* The pipeline's table is built anew, for the file and the route as they are.
KillPipeline ==
    /\ Killed(pipeline)
    /\ digest' = file
    /\ route' = IF file.managed \in Policies THEN route ELSE file.managed
    /\ UNCHANGED recv

\* Somebody changes the file outside the managed region.
Edit ==
    /\ owner = None
    /\ Count("edits")
    /\ file' = [file EXCEPT !.rest = @ + 1]
    /\ UNCHANGED <<running, backups, owner, at, work, recv, pipe, offered, verified>>

\* A controller serves a later policy.
Publish(c, p) ==
    /\ Count("published")
    /\ SequenceOf(offered[c]) < Sequence[p]
    /\ offered' = [offered EXCEPT ![c] = p]
    /\ UNCHANGED <<disk, owner, at, work, recv, pipe, verified>>

-----------------------------------------------------------------------------
ApplySteps(p) ==
    \/ Take(p) \/ Declines(p) \/ Write(p) \/ Restarted(p) \/ Succeeds(p)
    \/ Restore(p) \/ Rerun(p) \/ Raise(p)

Fails(p) ==
    \/ CannotStart(p) \/ WriteFails(p) \/ RestartFails(p) \/ Unverified(p)
    \/ RestoreFails(p) \/ RerunFails(p)

ReceiverSteps ==
    \/ Start \/ Fetch(active, "active", "standby") \/ Fetch(standby, "standby", "choose")
    \/ NoUpdate \/ Choose \/ Commit

Next ==
    \/ \E p \in Programs : ApplySteps(p) \/ Fails(p)
    \/ ReceiverSteps
    \/ FetchFails("active", "standby") \/ FetchFails("standby", "choose") \/ CommitFails
    \/ \E r \in Routes : Decide(r) \/ Block(r)
    \/ Activated
    \/ KillReceiver \/ KillPipeline
    \/ Edit
    \/ \E c \in Controllers, p \in Policies : Publish(c, p)

Spec == Init /\ [][Next]_vars

\* A timer starts the receiver again and again, and a program that runs goes on.
FairSpec ==
    /\ Spec
    /\ WF_vars(ReceiverSteps)
    /\ \A p \in Programs : WF_vars(ApplySteps(p))
    /\ WF_vars(Activated)

-----------------------------------------------------------------------------
(* What the guarded adapter and its callers promise *)

\* A rolled-back apply leaves the file as it found it, and LiteLLM running what
\* it ran, or the file.
RolledBack ==
    \A p \in Programs : at[p] = "rolled_back" =>
        /\ file = work[p].found
        /\ running \in {work[p].ran, file}

\* No edit made while nobody applies is undone, whichever backups are restored.
EditsKept == file.rest = counts.edits

\* A route is in the file only if the decision to put it there is in the log.
DecidedFirst ==
    file.managed \in Routes =>
        \E d \in log : d.target = file.managed /\ d.outcome # "blocked"

\* As long as nobody else has written, the route table's route is the file's.
RouteIsServed ==
    file = digest /\ file.managed \notin Policies => file.managed = route

\* The last known good policy has been applied and verified.
CommittedVerified == current # None => current \in verified

\* The last known good policy is replaced by a later one only: of two policies of
\* one sequence the receiver keeps the first, whichever controllers it reaches.
NeverBack ==
    [][current' # current => SequenceOf(current') > SequenceOf(current)]_vars

\* A policy later than any other that both controllers serve is in the end the
\* receiver's, whatever failed before.
Converges ==
    \A p \in Policies :
        (\A q \in Policies \ {p} : Sequence[q] < Sequence[p]) =>
            ((\A c \in Controllers : offered[c] = p) ~> current = p)

\* A failure restores both disk and runtime state, if LiteLLM ran.
RestoresBoth ==
    \A p \in Programs : at[p] = "rolled_back" =>
        file = work[p].found /\ work[p].ran \in {running, Down}
=============================================================================
