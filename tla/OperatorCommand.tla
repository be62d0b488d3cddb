--------------------------- MODULE OperatorCommand ---------------------------
(***************************************************************************)
(* The operator command (operator/cli.py): each run takes the next number  *)
(* of a durable sequence under a file lock, signs the payload with it and  *)
(* either prints the envelope or posts it to one or two controllers, and   *)
(* leaves a receipt.  Runs overlap, a post without an answer may have been *)
(* handled or still arrive, the sequence or the receipt may fail to be     *)
(* written, and a run may be killed anywhere: the kernel then drops its    *)
(* lock.                                                                   *)
(***************************************************************************)
EXTENDS Integers, Sequences, FiniteSets, ReplayWindow

CONSTANTS
    Command,       \* runs of the command that may overlap
    Payload,       \* policies
    Site,          \* controllers
    Unlocked,      \* no run holds the lock
    MaxCommands,   \* bound: runs started
    MaxCmdFaults   \* bound: writes that fail, and runs that are killed

ASSUME OperatorAssumption ==
    /\ Unlocked \notin Command
    /\ IsFiniteSet(Site)
    /\ Payload # {}
    /\ {MaxCommands, MaxCmdFaults} \subseteq Nat

VARIABLES
    counter,      \* the sequence file
    flock,        \* the holder of its lock
    run,          \* each run of the command
    unanswered,   \* posts that may still arrive
    taken,        \* what each controller accepted from the operator's key
    receipts,     \* the log of receipts
    allocated,    \* history: the sequences that were handed out, in order
    cmdTally      \* runs and faults so far

operatorVars == <<counter, flock, run, unanswered, taken, receipts, allocated, cmdTally>>

Signed == [seq : Nat, payload : Payload]
CmdStatuses == {"prepared", "applied", "failed"}
\* "sites" is history: which controllers the run was given, in which order.
CmdReceipt == [status : CmdStatuses, accepted : Nat, envelope : Signed, sites : Seq(Site)]
CmdPlaces == {"done", "start", "write", "post", "receipt", "failure"}

\* "loaded" is what a run read in the sequence file, or signed with; "next" is
\* the controller it posts to, and "accepted" counts the successes before it.
Run == [at : CmdPlaces, apply : BOOLEAN, payload : Payload, loaded : Nat,
        sites : Seq(Site), next : Nat, accepted : Nat]

\* No run: nothing is left of one that has ended.
Ended == [at |-> "done", apply |-> FALSE, payload |-> CHOOSE p \in Payload : TRUE,
          loaded |-> 0, sites |-> <<>>, next |-> 1, accepted |-> 0]

CmdBound == [runs |-> MaxCommands, faults |-> MaxCmdFaults]

OperatorTypeOK ==
    /\ counter \in Nat
    /\ flock \in Command \cup {Unlocked}
    /\ run \in [Command -> Run]
    /\ unanswered \subseteq [to : Site, envelope : Signed]
    /\ taken \in [Site -> SUBSET Signed]
    /\ receipts \subseteq CmdReceipt
    /\ allocated \in Seq(Nat)
    /\ cmdTally \in [DOMAIN CmdBound -> Nat]
    /\ \A c \in Command : (flock = c) <=> (run[c].at = "write")

OperatorInit ==
    /\ counter = 0
    /\ flock = Unlocked
    /\ run = [c \in Command |-> Ended]
    /\ unanswered = {}
    /\ taken = [s \in Site |-> {}]
    /\ receipts = {}
    /\ allocated = <<>>
    /\ cmdTally = [b \in DOMAIN CmdBound |-> 0]

Counts(b) ==
    /\ cmdTally[b] < CmdBound[b]
    /\ cmdTally' = [cmdTally EXCEPT ![b] = @ + 1]

Moves(c, place) == run' = [run EXCEPT ![c].at = place]
Envelope(c) == [seq |-> run[c].loaded, payload |-> run[c].payload]

\* The payload and the controllers are valid and, to apply, the digest that
\* was confirmed is that of the payload.
Begin(c, apply, payload, sites) ==
    /\ run[c].at = "done"
    /\ Counts("runs")
    /\ run' = [run EXCEPT ![c] = [at |-> "start", apply |-> apply, payload |-> payload,
                                  loaded |-> 0, sites |-> sites, next |-> 1, accepted |-> 0]]
    /\ UNCHANGED <<counter, flock, unanswered, taken, receipts, allocated>>

-----------------------------------------------------------------------------
(* SequenceAllocator.allocate *)

\* Mutant: the file is read without its lock.
LoadUnlocked(c) ==
    /\ run[c].at = "start"
    /\ flock' = c
    /\ run' = [run EXCEPT ![c].at = "write", ![c].loaded = counter]
    /\ UNCHANGED <<counter, unanswered, taken, receipts, allocated, cmdTally>>

Load(c) ==
    /\ run[c].at = "start"
    /\ flock = Unlocked
    /\ flock' = c
    /\ run' = [run EXCEPT ![c].at = "write", ![c].loaded = counter]
    /\ UNCHANGED <<counter, unanswered, taken, receipts, allocated, cmdTally>>

\* The next sequence is durable, the lock released, the payload signed.
Write(c) ==
    /\ run[c].at = "write"
    /\ counter' = run[c].loaded + 1
    /\ flock' = Unlocked
    /\ run' = [run EXCEPT ![c].at = IF run[c].apply THEN "post" ELSE "receipt",
                          ![c].loaded = @ + 1]
    /\ allocated' = Append(allocated, run[c].loaded + 1)
    /\ UNCHANGED <<unanswered, taken, receipts, cmdTally>>

\* Mutant: the lock is kept when the write fails.
WriteFailsHeld(c) ==
    /\ run[c].at = "write"
    /\ Counts("faults")
    /\ counter' \in {counter, run[c].loaded + 1}
    /\ Moves(c, "failure")
    /\ UNCHANGED <<flock, unanswered, taken, receipts, allocated>>

\* The file cannot be replaced, or not be synced once it was.
WriteFails(c) ==
    /\ run[c].at = "write"
    /\ Counts("faults")
    /\ counter' \in {counter, run[c].loaded + 1}
    /\ flock' = Unlocked
    /\ Moves(c, "failure")
    /\ UNCHANGED <<unanswered, taken, receipts, allocated>>

-----------------------------------------------------------------------------
(* _post_envelope *)

\* A controller takes an envelope that its replay window lets pass.
TakeBy(s, envelope) ==
    /\ FreshSeq(envelope.seq, {e.seq : e \in taken[s]})
    /\ taken' = [taken EXCEPT ![s] = @ \cup {envelope}]

\* It answers with success once it has taken it, and again to a repeated post.
Acks(s, envelope) ==
    \/ TakeBy(s, envelope)
    \/ envelope \in taken[s] /\ UNCHANGED taken

PostsTo(c) == run[c].sites[run[c].next]

\* The next controller of a run has been tried, with or without success.
Tried(c, success) ==
    /\ run[c].at = "post"
    /\ LET accepted == run[c].accepted + IF success THEN 1 ELSE 0
       IN  run' = [run EXCEPT ![c].next = @ + 1, ![c].accepted = accepted,
                              ![c].at = IF run[c].next < Len(run[c].sites) THEN "post"
                                        ELSE IF accepted > 0 THEN "receipt" ELSE "failure"]
    /\ UNCHANGED <<counter, flock, receipts, allocated, cmdTally>>

Acknowledged(c) ==
    /\ Tried(c, TRUE)
    /\ Acks(PostsTo(c), Envelope(c))
    /\ UNCHANGED unanswered

\* Mutant: an answer is a success, whatever its status.
DeclinedCounts(c) ==
    /\ Tried(c, TRUE)
    /\ UNCHANGED <<taken, unanswered>>

\* The controller answers that it does not take the policy.
Declined(c) ==
    /\ Tried(c, FALSE)
    /\ UNCHANGED <<taken, unanswered>>

\* No answer: handled all the same, or under way for good or for later.
Unheard(c) ==
    /\ Tried(c, FALSE)
    /\ \/ Acks(PostsTo(c), Envelope(c)) /\ UNCHANGED unanswered
       \/ /\ unanswered' = unanswered \cup {[to |-> PostsTo(c), envelope |-> Envelope(c)]}
          /\ UNCHANGED taken

ArrivesLate(m) ==
    /\ unanswered' = unanswered \ {m}
    /\ TakeBy(m.to, m.envelope) \/ UNCHANGED taken
    /\ UNCHANGED <<counter, flock, run, receipts, allocated, cmdTally>>

-----------------------------------------------------------------------------
(* Receipts *)

Recorded(c, status) ==
    /\ receipts' = receipts \cup {[status |-> status, accepted |-> run[c].accepted,
                                   envelope |-> Envelope(c), sites |-> run[c].sites]}
    /\ run' = [run EXCEPT ![c] = Ended]
    /\ UNCHANGED <<counter, flock, unanswered, taken, allocated, cmdTally>>

Succeeds(c) ==
    /\ run[c].at = "receipt"
    /\ Recorded(c, IF run[c].apply THEN "applied" ELSE "prepared")

Fails(c) ==
    /\ run[c].at = "failure"
    /\ Recorded(c, "failed")

\* A success that cannot be recorded is a failure.
ReceiptFails(c) ==
    /\ run[c].at = "receipt"
    /\ Counts("faults")
    /\ Moves(c, "failure")
    /\ UNCHANGED <<counter, flock, unanswered, taken, receipts, allocated>>

\* Killed, or ended by an error that the command does not catch.
KillCommand(c) ==
    /\ run[c].at # "done"
    /\ Counts("faults")
    /\ run' = [run EXCEPT ![c] = Ended]
    /\ flock' = IF flock = c THEN Unlocked ELSE flock
    /\ UNCHANGED <<counter, unanswered, taken, receipts, allocated>>

SiteLists == UNION {[1 .. n -> Site] : n \in 1 .. 2}

OperatorNext ==
    \/ \E c \in Command :
        \/ \E apply \in BOOLEAN, p \in Payload, sites \in SiteLists : Begin(c, apply, p, sites)
        \/ Load(c) \/ Write(c) \/ WriteFails(c)
        \/ Acknowledged(c) \/ Declined(c) \/ Unheard(c)
        \/ Succeeds(c) \/ Fails(c) \/ ReceiptFails(c) \/ KillCommand(c)
    \/ \E m \in unanswered : ArrivesLate(m)

OperatorSpec == OperatorInit /\ [][OperatorNext]_operatorVars

-----------------------------------------------------------------------------
(* Properties *)

\* No two runs sign with one sequence, and a later run signs with a higher
\* one, however they overlap and wherever they fail or are killed: what a
\* controller took from one run it could not take from the next otherwise
\* (SequenceAllocator.allocate).
SequencesGrow == \A i, j \in DOMAIN allocated : i < j => allocated[i] < allocated[j]

\* An "applied" receipt means what it says: of the posts of its run as many as
\* it counts went to a controller that holds this very payload under this very
\* sequence, and one at least (run_action, _post_envelope).  A controller that is
\* given twice answers twice and counts twice (mutate).
AppliedIsAccepted ==
    \A r \in receipts :
        r.status = "applied" =>
            r.accepted \in 1 .. Cardinality({i \in DOMAIN r.sites :
                                               r.envelope \in taken[r.sites[i]]})
=============================================================================
