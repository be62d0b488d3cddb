------------------------------ MODULE HostAgent ------------------------------
(***************************************************************************)
(* The host agent (agents/host/report.py and __main__.py): every interval  *)
(* it collects from its engines, signs one report under a durable sequence *)
(* and posts it to each controller that it does not back off from.  What   *)
(* an engine last said is kept in memory and repeated, in the state the    *)
(* operator has set since, while its collector fails.                      *)
(*                                                                         *)
(* The state and the sequence are files that are replaced whole; the event *)
(* log is appended to and read back into every report.  A post that timed  *)
(* out may still arrive, after later ones.  The agent may be killed        *)
(* between any two steps, and ends by itself when an engine reports more   *)
(* requests than the slots an engine has by default, or when the log       *)
(* cannot be written or read.                                              *)
(***************************************************************************)
EXTENDS Integers, Sequences, FiniteSets, SequencesExt, FiniteSetsExt, ReplayWindow

CONSTANTS
    Engine,          \* engines of the host
    Collectors,      \* the engine of each collector, in the configured order
    Endpoint,        \* the controllers
    Modes,           \* maintenance states
    Configured,      \* the one a fresh host starts in
    MaxSlots,        \* PhysicalEngine.max_slots, which no collector sets
    RetryBase, RetryMax,
    Rounds,          \* bound: what the collectors may answer in one round
    MaxReports,      \* bound: reports signed
    MaxStarts,       \* bound: starts of the agent
    MaxModeChanges,  \* bound: changes of the maintenance state
    MaxTears,        \* bound: appends to the log that fail
    Nil              \* no figures

ASSUME AgentAssumption ==
    /\ Collectors \in Seq(Engine)
    /\ Endpoint # {}   \* "controllers must not be empty"
    /\ Configured \in Modes
    /\ MaxSlots \in Nat \ {0}
    /\ Rounds \subseteq [DOMAIN Collectors -> Nat \cup {-1}]
    /\ RetryBase \in Nat \ {0} /\ RetryMax \in Nat /\ RetryBase <= RetryMax
    /\ {MaxReports, MaxStarts, MaxModeChanges, MaxTears} \subseteq Nat

VARIABLES
    maintenance,  \* the operator's state file
    sequence,     \* the sequence file
    torn,         \* the log has a line that does not parse
    agent,        \* where the agent is
    last,         \* _last_engines, by engine
    fresh,        \* the engines and staleness that were collected
    attempts,     \* _failure_attempts
    wait,         \* time until _retry_after
    report,       \* the sequence this life signed last: its content is fresh
    toPost,       \* the endpoints still to post to
    late,         \* posts that timed out and may still arrive
    window,       \* sequences each controller has accepted
    signed,       \* history: the sequences of all reports signed, in order
    measured,     \* history: engines that answered in this life
    agentTally    \* starts, mode changes and tears so far

agentDisk == <<maintenance, sequence, torn>>
agentNet == <<late, window>>
agentMemory == <<last, fresh, attempts, wait, report, toPost, measured>>
agentVars == <<maintenance, sequence, torn, agent, last, fresh, attempts, wait, report, toPost,
               late, window, signed, measured, agentTally>>

AgentBounds == [starts |-> MaxStarts, modes |-> MaxModeChanges, tears |-> MaxTears]

\* The figures of an engine: when they were taken, and the state of its host.
\* The requests themselves, which the collectors of one engine add up, matter
\* only to the limit.
Figures == [round : Nat, state : Modes]
EngineFigures == [Engine -> Figures \cup {Nil}]
NothingKnown == [e \in Engine |-> Nil]
Collected == [engines : EngineFigures, stale : BOOLEAN]

NothingCollected == [engines |-> NothingKnown, stale |-> FALSE]

ASSUME NilAssumption == Nil \notin Figures

AgentInit ==
    /\ maintenance = Configured
    /\ sequence = 0
    /\ torn = FALSE
    /\ agent = "down"
    /\ last = NothingKnown
    /\ fresh = NothingCollected
    /\ attempts = [c \in Endpoint |-> 0]
    /\ wait = [c \in Endpoint |-> 0]
    /\ report = 0
    /\ toPost = {}
    /\ late = {}
    /\ window = [c \in Endpoint |-> {}]
    /\ signed = <<>>
    /\ measured = {}
    /\ agentTally = [b \in DOMAIN AgentBounds |-> 0]

Tallies(b) ==
    /\ agentTally[b] < AgentBounds[b]
    /\ agentTally' = [agentTally EXCEPT ![b] = @ + 1]

StartAgent ==
    /\ agent = "down"
    /\ Tallies("starts")
    /\ agent' = "idle"
    /\ UNCHANGED <<agentDisk, agentMemory, agentNet, signed>>

\* The memory is lost.
Dies ==
    /\ agent' = "down"
    /\ last' = NothingKnown
    /\ fresh' = NothingCollected
    /\ attempts' = [c \in Endpoint |-> 0]
    /\ wait' = [c \in Endpoint |-> 0]
    /\ report' = 0
    /\ toPost' = {}
    /\ measured' = {}

-----------------------------------------------------------------------------
(* Collecting: a round gives the requests each collector saw, or its failure *)

Failed == -1

Answers(e, answer) == {i \in DOMAIN Collectors : Collectors[i] = e /\ answer[i] # Failed}

Answering(answer) == {e \in Engine : Answers(e, answer) # {}}
Failing(answer) == {Collectors[i] : i \in {j \in DOMAIN Collectors : answer[j] = Failed}}

\* Only the first observation of an engine is held against the limit; the
\* others are added to it.
Overloaded(answer) ==
    \E e \in Answering(answer) : answer[Min(Answers(e, answer))] > MaxSlots

Measurement == [round |-> sequence + 1, state |-> maintenance]

\* Mutant: what is carried over keeps its state.
CombinedUnstamped(answer) ==
    [e \in Engine |->
        IF e \in Answering(answer) THEN Measurement
        ELSE IF e \in Failing(answer) THEN last[e] ELSE Nil]

Carried(e) == IF last[e] = Nil THEN Nil ELSE [last[e] EXCEPT !.state = maintenance]

\* The engines that answered, and those that did not as they were.
Combined(answer) ==
    [e \in Engine |->
        IF e \in Answering(answer) THEN Measurement
        ELSE IF e \in Failing(answer) THEN Carried(e) ELSE Nil]

Collect(answer) ==
    /\ agent = "idle"
    /\ ~Overloaded(answer)
    /\ agent' = "sign"
    /\ fresh' = [engines |-> Combined(answer), stale |-> Failing(answer) # {}]
    /\ last' = IF fresh'.engines = NothingKnown THEN last ELSE fresh'.engines
    /\ measured' = measured \cup Answering(answer)
    /\ UNCHANGED <<agentDisk, attempts, wait, report, toPost, agentNet, signed, agentTally>>

\* An uncaught validation error ends the agent.
CollectDies(answer) ==
    /\ agent = "idle"
    /\ Overloaded(answer)
    /\ Dies
    /\ UNCHANGED <<agentDisk, agentNet, signed, agentTally>>

-----------------------------------------------------------------------------
(* Signing *)

\* Mutant: the sequence is committed only after the report was published.
SignUncommitted ==
    /\ agent = "sign"
    /\ sequence < MaxReports
    /\ ~torn
    /\ report' = sequence + 1
    /\ signed' = Append(signed, report')
    /\ agent' = "post"
    /\ toPost' = Endpoint
    /\ sequence' = sequence
    /\ UNCHANGED <<maintenance, torn, last, fresh, attempts, wait, agentNet, measured, agentTally>>

\* The sequence is durable before the report exists.
Sign ==
    /\ agent = "sign"
    /\ sequence < MaxReports
    /\ ~torn
    /\ report' = sequence + 1
    /\ signed' = Append(signed, report')
    /\ agent' = "post"
    /\ toPost' = Endpoint
    /\ sequence' = sequence + 1
    /\ UNCHANGED <<maintenance, torn, last, fresh, attempts, wait, agentNet, measured, agentTally>>

\* The sequence is committed and lost: its directory cannot be synced, the log
\* that is read next does not parse, or the agent is killed.
SignDies ==
    /\ agent = "sign"
    /\ sequence < MaxReports
    /\ sequence' = sequence + 1
    /\ Dies
    /\ UNCHANGED <<maintenance, torn, agentNet, signed, agentTally>>

-----------------------------------------------------------------------------
(* Publishing *)

\* The replay window of a controller takes a sequence above those it has taken
\* from this key; the report then replaces the host's row.
Accepts(c, n) ==
    /\ FreshSeq(n, window[c])
    /\ window' = [window EXCEPT ![c] = @ \cup {n}]

Posted(c) ==
    /\ agent = "post"
    /\ c \in toPost
    /\ toPost' = toPost \ {c}
    /\ \/ toPost' # {} /\ UNCHANGED <<agent, fresh>>
       \/ toPost' = {} /\ agent' = "idle" /\ fresh' = NothingCollected
    /\ UNCHANGED <<agentDisk, last, report, signed, measured, agentTally>>

Skip(c) ==
    /\ Posted(c)
    /\ wait[c] > 0
    /\ UNCHANGED <<attempts, wait, agentNet>>

Answered(c) ==
    /\ Posted(c)
    /\ wait[c] = 0
    /\ Accepts(c, report)
    /\ attempts' = [attempts EXCEPT ![c] = 0]
    /\ UNCHANGED <<wait, late>>

\* The delay doubles with every failure in a row, up to its limit.
Delay(failures) == Min({RetryMax, RetryBase * 2 ^ Min({failures - 1, 20})})

BacksOff(c) ==
    /\ wait[c] = 0
    /\ attempts' = [attempts EXCEPT ![c] = @ + 1]
    /\ wait' = [wait EXCEPT ![c] = Delay(attempts'[c])]

\* Mutant: an answer is a success whatever its status.
RefusedIsAnswer(c) ==
    /\ Posted(c)
    /\ wait[c] = 0
    /\ attempts' = [attempts EXCEPT ![c] = 0]
    /\ UNCHANGED <<wait, agentNet>>

\* The controller refuses, for a reason of its own.
Refused(c) ==
    /\ Posted(c)
    /\ BacksOff(c)
    /\ UNCHANGED agentNet

\* No answer in time: lost, handled with the answer lost, or still to arrive.
TimesOut(c) ==
    /\ Posted(c)
    /\ BacksOff(c)
    /\ \/ UNCHANGED agentNet
       \/ Accepts(c, report) /\ UNCHANGED late
       \/ late' = late \cup {[to |-> c, seq |-> report]} /\ UNCHANGED window

Arrives(m) ==
    /\ late' = late \ {m}
    /\ Accepts(m.to, m.seq) \/ UNCHANGED window
    /\ UNCHANGED <<agentDisk, agent, last, fresh, attempts, wait, report, toPost, signed,
                   measured, agentTally>>

-----------------------------------------------------------------------------
(* Around the agent *)

\* The sleep between two reports.
Sleep ==
    /\ agent = "idle"
    /\ \E c \in Endpoint : wait[c] > 0
    /\ wait' = [c \in Endpoint |-> Max({0, wait[c] - 1})]
    /\ UNCHANGED <<agentDisk, agent, last, fresh, attempts, report, toPost, agentNet, signed,
                   measured, agentTally>>

\* An event cannot be appended: half a line may stay, and the agent ends.
LogFails ==
    /\ agent \in {"idle", "post"}
    /\ Tallies("tears")
    /\ torn' \in {torn, TRUE}
    /\ Dies
    /\ UNCHANGED <<maintenance, sequence, agentNet, signed>>

Kill ==
    /\ agent # "down"
    /\ Dies
    /\ UNCHANGED <<agentDisk, agentNet, signed, agentTally>>

ChangeMode(m) ==
    /\ m # maintenance
    /\ Tallies("modes")
    /\ maintenance' = m
    /\ UNCHANGED <<sequence, torn, agent, last, fresh, attempts, wait, report, toPost, agentNet,
                   signed, measured>>

AgentNext ==
    \/ StartAgent \/ Sign \/ SignDies \/ Sleep \/ LogFails \/ Kill
    \/ \E answer \in Rounds : Collect(answer) \/ CollectDies(answer)
    \/ \E c \in Endpoint : Skip(c) \/ Answered(c) \/ Refused(c) \/ TimesOut(c)
    \/ \E m \in late : Arrives(m)
    \/ \E m \in Modes : ChangeMode(m)

AgentSpec == AgentInit /\ [][AgentNext]_agentVars

-----------------------------------------------------------------------------
(* Properties *)

AgentTypeOK ==
    /\ maintenance \in Modes
    /\ sequence \in Nat
    /\ torn \in BOOLEAN
    /\ agent \in {"down", "idle", "sign", "post"}
    /\ last \in EngineFigures
    /\ fresh \in Collected
    /\ attempts \in [Endpoint -> Nat]
    /\ wait \in [Endpoint -> 0 .. RetryMax]
    /\ report \in Nat
    /\ toPost \subseteq Endpoint
    /\ late \subseteq [to : Endpoint, seq : Nat]
    /\ window \in [Endpoint -> SUBSET Nat]
    /\ signed \in Seq(Nat)
    /\ measured \subseteq Engine
    /\ agentTally \in [DOMAIN AgentBounds -> Nat]
    /\ agent = "post" => report # 0 /\ toPost # {}

\* The sequences signed only grow, wherever the agent was killed or ended by
\* itself: a controller that took one report would refuse another one of its
\* sequence (HostAgent._next_sequence, ReportSequenceStore).
SequenceOnce == \A i, j \in DOMAIN signed : i < j => signed[i] < signed[j]

\* Every report is the whole host: each engine that has answered since the
\* agent started, all of them in one maintenance state, and figures of an
\* earlier round only in a report that says it is stale (_collect_report).
WholeTruth ==
    agent \in {"sign", "post"} =>
        LET round == IF agent = "post" THEN report ELSE sequence + 1
        IN  /\ {e \in Engine : fresh.engines[e] # Nil} = measured
            /\ \A d, e \in measured : fresh.engines[d].state = fresh.engines[e].state
            /\ ~fresh.stale => \A e \in measured : fresh.engines[e].round = round

\* Between two reports a controller that the agent counts no failure of has
\* taken the very last report, so one that lags behind is backed off from,
\* whatever the other one does (HostAgent.publish).
LaggingBacksOff ==
    agent = "idle" /\ report # 0 =>
        \A c \in Endpoint : attempts[c] = 0 => report \in window[c]
=============================================================================
