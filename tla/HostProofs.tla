----------------------------------- MODULE HostProofs --------------------------
(***************************************************************************)
(* Proofs about the programs beside the controllers, for any engines,      *)
(* collectors, controllers, commands and keys, and any number of starts,   *)
(* kills, failures and late posts: HostAgent, OperatorCommand and          *)
(* PolicyTrust, a part for each.                                           *)
(***************************************************************************)
EXTENDS HostAgent, OperatorCommand, PolicyTrust, FiniteSetTheorems, TLAPS

-----------------------------------------------------------------------------
(* HostAgent *)

Around == Sleep \/ LogFails \/ Kill \/ StartAgent
Collects(answer) == Collect(answer) \/ CollectDies(answer)
Posts(c) == Skip(c) \/ Answered(c) \/ Refused(c) \/ TimesOut(c)

-----------------------------------------------------------------------------
(* The sequence: durable before its report exists *)

\* What was signed only grows and is not above the file.
ReportsKept ==
    /\ sequence \in Nat
    /\ signed \in Seq(Nat)
    /\ \A i \in DOMAIN signed : signed[i] <= sequence
    /\ SequenceOnce

LEMMA SignGrows ==
    ASSUME ReportsKept, Sign
    PROVE  ReportsKept'
<1>1. /\ sequence' = sequence + 1 /\ signed' = Append(signed, sequence + 1)
      /\ sequence \in Nat /\ signed \in Seq(Nat)
  BY DEF ReportsKept, Sign
<1>2. /\ signed' \in Seq(Nat) /\ DOMAIN signed' = 1 .. Len(signed) + 1
      /\ DOMAIN signed = 1 .. Len(signed) /\ Len(signed) \in Nat
      /\ \A i \in DOMAIN signed : signed'[i] = signed[i] /\ signed[i] \in Nat
      /\ signed'[Len(signed) + 1] = sequence + 1
  BY <1>1
<1>3. \A i \in DOMAIN signed' : signed'[i] <= sequence'
  BY <1>1, <1>2 DEF ReportsKept
<1>4. SequenceOnce'
  <2> SUFFICES ASSUME NEW i \in DOMAIN signed', NEW j \in DOMAIN signed', i < j
               PROVE  signed'[i] < signed'[j]
    BY DEF SequenceOnce
  <2>1. i \in DOMAIN signed
    BY <1>2
  <2>2. CASE j \in DOMAIN signed
    BY <1>2, <2>1, <2>2 DEF ReportsKept, SequenceOnce
  <2>3. CASE j = Len(signed) + 1
    BY <1>1, <1>2, <2>1, <2>3 DEF ReportsKept
  <2> QED
    BY <1>2, <2>2, <2>3
<1> QED
  BY <1>1, <1>2, <1>3, <1>4 DEF ReportsKept

LEMMA ReportsStep == ReportsKept /\ [AgentNext]_agentVars => ReportsKept'
<1> SUFFICES ASSUME ReportsKept, [AgentNext]_agentVars PROVE ReportsKept'
  OBVIOUS
<1>1. CASE UNCHANGED <<sequence, signed>>
  BY <1>1 DEF ReportsKept, SequenceOnce
<1>2. CASE Sign
  BY <1>2, SignGrows
<1>3. CASE SignDies
  BY <1>3 DEF SignDies, ReportsKept, SequenceOnce
<1>4. CASE Around
  BY <1>1, <1>4 DEF Around, StartAgent, Sleep, LogFails, Kill, agentDisk
<1>5. ASSUME NEW answer \in Rounds, Collects(answer) PROVE ReportsKept'
  BY <1>1, <1>5 DEF Collects, Collect, CollectDies, agentDisk
<1>6. ASSUME NEW c \in Endpoint, Posts(c) PROVE ReportsKept'
  BY <1>1, <1>6 DEF Posts, Skip, Answered, Refused, TimesOut, Posted, agentDisk
<1>7. ASSUME NEW m \in late, Arrives(m) PROVE ReportsKept'
  BY <1>1, <1>7 DEF Arrives, agentDisk
<1>8. ASSUME NEW m \in Modes, ChangeMode(m) PROVE ReportsKept'
  BY <1>1, <1>8 DEF ChangeMode
<1>9. CASE UNCHANGED agentVars
  BY <1>1, <1>9 DEF agentVars
<1> QED
  BY <1>2, <1>3, <1>4, <1>5, <1>6, <1>7, <1>8, <1>9 DEF AgentNext, Around, Collects, Posts

\* No sequence is signed twice, wherever the agent ends (HostAgent._next_sequence).
THEOREM SequencesOnce == AgentSpec => []SequenceOnce
<1>1. AgentInit => ReportsKept
  BY DEF AgentInit, ReportsKept, SequenceOnce
<1>2. ReportsKept => SequenceOnce
  BY DEF ReportsKept
<1> QED
  BY <1>1, <1>2, ReportsStep, PTL DEF AgentSpec

-----------------------------------------------------------------------------
(* Publishing: who has the report, and who is backed off from *)

\* While the report is posted, every controller that it was posted to has it or
\* is counted a failure; a wait is the mark of a failure.
BackOffKept ==
    /\ sequence \in Nat /\ report \in Nat
    /\ late \subseteq [to : Endpoint, seq : Nat]
    /\ window \in [Endpoint -> SUBSET Nat]
    /\ attempts \in [Endpoint -> Nat]
    /\ DOMAIN wait = Endpoint
    /\ \A c \in Endpoint : attempts[c] = 0 => wait[c] = 0
    /\ agent = "post" =>
        \A c \in Endpoint \ toPost : attempts[c] = 0 => report \in window[c]
    /\ agent = "down" => report = 0
    /\ LaggingBacksOff

LEMMA LateFields ==
    ASSUME NEW m \in [to : Endpoint, seq : Nat]
    PROVE  m.to \in Endpoint /\ m.seq \in Nat
OBVIOUS

\* A controller that takes a sequence keeps those it has taken.
LEMMA AcceptsFacts ==
    ASSUME window \in [Endpoint -> SUBSET Nat], NEW c \in Endpoint, NEW n \in Nat,
           Accepts(c, n) \/ UNCHANGED window
    PROVE  /\ window' \in [Endpoint -> SUBSET Nat]
           /\ \A d \in Endpoint : window[d] \subseteq window'[d]
           /\ Accepts(c, n) => n \in window'[c]
<1>1. CASE Accepts(c, n)
  <2>1. window' = [window EXCEPT ![c] = @ \cup {n}]
    BY <1>1 DEF Accepts
  <2>2. \A d \in Endpoint : window'[d] = IF d = c THEN window[c] \cup {n} ELSE window[d]
    BY <2>1
  <2>3. window' \in [Endpoint -> SUBSET Nat]
    BY <2>1
  <2> QED
    BY <2>2, <2>3
<1>2. CASE ~Accepts(c, n)
  BY <1>2
<1> QED
  BY <1>1, <1>2

LEMMA DelayPositive == \A c \in Endpoint : wait[c] = 0 => Max({0, wait[c] - 1}) = 0
<1>1. \E x \in {0, -1} : \A y \in {0, -1} : x >= y
  OBVIOUS
<1>2. Max({0, -1}) \in {0, -1} /\ \A y \in {0, -1} : Max({0, -1}) >= y
  BY <1>1, Zenon DEF Max
<1>3. Max({0, -1}) = 0
  BY <1>2
<1>4. 0 - 1 = -1
  OBVIOUS
<1> QED
  BY <1>3, <1>4

\* After a post the controller it went to has the report or is counted.
LEMMA PostKeeps ==
    ASSUME BackOffKept, NEW c \in Endpoint, Posted(c),
           attempts' \in [Endpoint -> Nat], DOMAIN wait' = Endpoint,
           window' \in [Endpoint -> SUBSET Nat],
           late' \subseteq [to : Endpoint, seq : Nat],
           \A d \in Endpoint : window[d] \subseteq window'[d],
           \A d \in Endpoint \ {c} : attempts'[d] = attempts[d] /\ wait'[d] = wait[d],
           attempts'[c] = 0 => wait'[c] = 0 /\ report \in window'[c]
    PROVE  BackOffKept'
<1>1. /\ agent = "post" /\ report' = report /\ sequence' = sequence /\ toPost' = toPost \ {c}
      /\ agent' = "post" \/ (toPost' = {} /\ agent' = "idle")
  BY DEF Posted, agentDisk
<1>2. \A d \in Endpoint \ toPost' : attempts'[d] = 0 => report \in window'[d]
  <2> SUFFICES ASSUME NEW d \in Endpoint \ toPost', attempts'[d] = 0
               PROVE  report \in window'[d]
    OBVIOUS
  <2>1. CASE d = c
    BY <2>1
  <2>2. CASE d # c
    BY <1>1, <2>2 DEF BackOffKept
  <2> QED
    BY <2>1, <2>2
<1>3. \A d \in Endpoint : attempts'[d] = 0 => wait'[d] = 0
  BY DEF BackOffKept
<1> QED
  BY <1>1, <1>2, <1>3 DEF BackOffKept, LaggingBacksOff

\* A post that failed, whatever the controller did with it.
LEMMA FailureKeeps ==
    ASSUME BackOffKept, NEW c \in Endpoint, Posted(c), BacksOff(c),
           late' \subseteq [to : Endpoint, seq : Nat],
           Accepts(c, report) \/ UNCHANGED window
    PROVE  BackOffKept'
<1>1. /\ attempts' \in [Endpoint -> Nat] /\ attempts'[c] # 0 /\ DOMAIN wait' = Endpoint
      /\ \A d \in Endpoint \ {c} : attempts'[d] = attempts[d]
  BY DEF BackOffKept, BacksOff
<1>2. \A d \in Endpoint \ {c} : wait'[d] = wait[d]
  BY DEF BackOffKept, BacksOff
<1>3. /\ window' \in [Endpoint -> SUBSET Nat]
      /\ \A d \in Endpoint : window[d] \subseteq window'[d]
  BY AcceptsFacts DEF BackOffKept
<1> QED
  BY <1>1, <1>2, <1>3, PostKeeps

LEMMA PostsKeep ==
    ASSUME BackOffKept, NEW c \in Endpoint, Posts(c)
    PROVE  BackOffKept'
<1>0. report \in Nat /\ late \subseteq [to : Endpoint, seq : Nat]
  BY DEF BackOffKept
<1>1. CASE Skip(c)
  <2>1. wait[c] > 0 /\ UNCHANGED <<attempts, wait, late, window>> /\ Posted(c)
    BY <1>1 DEF Skip, agentNet
  <2>2. attempts'[c] # 0
    BY <2>1 DEF BackOffKept
  <2> QED
    BY <2>1, <2>2, PostKeeps DEF BackOffKept
<1>2. CASE Answered(c)
  <2>1. /\ Posted(c) /\ wait[c] = 0 /\ Accepts(c, report) /\ UNCHANGED <<wait, late>>
        /\ attempts' = [attempts EXCEPT ![c] = 0]
    BY <1>2 DEF Answered
  <2>2. /\ attempts' \in [Endpoint -> Nat]
        /\ \A d \in Endpoint \ {c} : attempts'[d] = attempts[d]
    BY <2>1 DEF BackOffKept
  <2>3. /\ window' \in [Endpoint -> SUBSET Nat] /\ report \in window'[c]
        /\ \A d \in Endpoint : window[d] \subseteq window'[d]
    BY <2>1, AcceptsFacts DEF BackOffKept
  <2> QED
    BY <2>1, <2>2, <2>3, PostKeeps DEF BackOffKept
<1>3. CASE Refused(c)
  BY <1>3, FailureKeeps DEF Refused, agentNet, BackOffKept
<1>4. CASE TimesOut(c)
  <2>1. late' \subseteq [to : Endpoint, seq : Nat]
    <3>1. [to |-> c, seq |-> report] \in [to : Endpoint, seq : Nat]
      BY <1>0
    <3> QED
      BY <1>0, <1>4, <3>1 DEF TimesOut, agentNet
  <2> QED
    BY <1>4, <2>1, FailureKeeps DEF TimesOut, agentNet
<1> QED
  BY <1>1, <1>2, <1>3, <1>4 DEF Posts

LEMMA DiesKeeps ==
    ASSUME BackOffKept, Dies, UNCHANGED agentNet, sequence' \in Nat
    PROVE  BackOffKept'
BY DEF BackOffKept, LaggingBacksOff, Dies, agentNet

LEMMA BackOffStep == BackOffKept /\ [AgentNext]_agentVars => BackOffKept'
<1> SUFFICES ASSUME BackOffKept, [AgentNext]_agentVars PROVE BackOffKept'
  OBVIOUS
<1>0. sequence + 1 \in Nat
  BY DEF BackOffKept
<1>1. CASE Sign
  BY <1>1 DEF Sign, BackOffKept, LaggingBacksOff, agentNet
<1>2. CASE SignDies
  BY <1>0, <1>2, DiesKeeps DEF SignDies
<1>3. CASE LogFails \/ Kill
  BY <1>3, DiesKeeps DEF LogFails, Kill, agentDisk, BackOffKept
<1>4. CASE StartAgent
  BY <1>4 DEF StartAgent, BackOffKept, LaggingBacksOff, agentNet, agentDisk, agentMemory
<1>5. CASE Sleep
  BY <1>5, DelayPositive DEF Sleep, BackOffKept, LaggingBacksOff, agentNet, agentDisk
<1>6. ASSUME NEW answer \in Rounds, Collects(answer) PROVE BackOffKept'
  <2>1. CASE Collect(answer)
    BY <2>1 DEF Collect, BackOffKept, LaggingBacksOff, agentNet, agentDisk
  <2>2. CASE CollectDies(answer)
    BY <2>2, DiesKeeps DEF CollectDies, agentDisk, BackOffKept
  <2> QED
    BY <1>6, <2>1, <2>2 DEF Collects
<1>7. ASSUME NEW c \in Endpoint, Posts(c) PROVE BackOffKept'
  BY <1>7, PostsKeep
<1>8. ASSUME NEW m \in late, Arrives(m) PROVE BackOffKept'
  <2>1. m.to \in Endpoint /\ m.seq \in Nat
    BY LateFields DEF BackOffKept
  <2>2. /\ window' \in [Endpoint -> SUBSET Nat]
        /\ \A d \in Endpoint : window[d] \subseteq window'[d]
    BY <1>8, <2>1, AcceptsFacts DEF Arrives, BackOffKept
  <2> QED
    BY <1>8, <2>2 DEF Arrives, BackOffKept, LaggingBacksOff, agentDisk
<1>9. ASSUME NEW m \in Modes, ChangeMode(m) PROVE BackOffKept'
  BY <1>9 DEF ChangeMode, BackOffKept, LaggingBacksOff, agentNet
<1>10. CASE UNCHANGED agentVars
  BY <1>10 DEF agentVars, BackOffKept, LaggingBacksOff
<1> QED
  BY <1>1, <1>2, <1>3, <1>4, <1>5, <1>6, <1>7, <1>8, <1>9, <1>10
     DEF AgentNext, Around, Collects, Posts

\* A controller that missed the last report is backed off from (HostAgent.publish).
THEOREM LaggingWaits == AgentSpec => []LaggingBacksOff
<1>1. AgentInit => BackOffKept
  BY DEF AgentInit, BackOffKept, LaggingBacksOff
<1>2. BackOffKept => LaggingBacksOff
  BY DEF BackOffKept
<1> QED
  BY <1>1, <1>2, BackOffStep, PTL DEF AgentSpec

-----------------------------------------------------------------------------
(* The report: all of the host, in one state *)

Figured(figures) == {e \in Engine : figures[e] # Nil}

\* What is remembered is what was measured in this life, by collectors there
\* are; what was collected is all of it, at one time of the state.
ReportKept ==
    /\ sequence \in Nat
    /\ maintenance \in Modes
    /\ last \in EngineFigures
    /\ fresh \in Collected
    /\ measured = Figured(last)
    /\ measured \subseteq {Collectors[i] : i \in DOMAIN Collectors}
    /\ agent \in {"down", "idle", "sign", "post"}
    /\ WholeTruth

LEMMA FiguresFacts ==
    ASSUME NEW r \in Nat, NEW m \in Modes
    PROVE  /\ [round |-> r, state |-> m] \in Figures /\ [round |-> r, state |-> m] # Nil
           /\ [round |-> r, state |-> m].round = r /\ [round |-> r, state |-> m].state = m
BY NilAssumption DEF Figures

LEMMA CarriedFacts ==
    ASSUME NEW e \in Engine, last \in EngineFigures, maintenance \in Modes
    PROVE  /\ Carried(e) \in Figures \cup {Nil}
           /\ Carried(e) = Nil <=> last[e] = Nil
           /\ Carried(e) # Nil => Carried(e).state = maintenance
<1>1. CASE last[e] = Nil
  BY <1>1 DEF Carried
<1>2. CASE last[e] # Nil
  <2>1. last[e] \in Figures
    BY <1>2 DEF EngineFigures
  <2>2. Carried(e) = [round |-> last[e].round, state |-> maintenance] /\ last[e].round \in Nat
    BY <1>2, <2>1 DEF Carried, Figures
  <2> QED
    BY <1>2, <2>2, FiguresFacts
<1> QED
  BY <1>1, <1>2

\* Every engine that has a collector answers or fails in a round.
LEMMA RoundFacts ==
    ASSUME NEW answer \in Rounds
    PROVE  /\ Answering(answer) \subseteq Engine
           /\ Answering(answer) \cup Failing(answer) = {Collectors[i] : i \in DOMAIN Collectors}
<1>1. \A i \in DOMAIN Collectors : Collectors[i] \in Engine
  BY AgentAssumption
<1> QED
  BY <1>1 DEF Answering, Failing, Answers

LEMMA CombinedFacts ==
    ASSUME ReportKept, NEW answer \in Rounds
    PROVE  /\ Combined(answer) \in EngineFigures
           /\ Figured(Combined(answer)) = measured \cup Answering(answer)
           /\ \A e \in Figured(Combined(answer)) :
                Combined(answer)[e].state = maintenance
           /\ Failing(answer) = {} =>
                \A e \in Figured(Combined(answer)) : Combined(answer)[e].round = sequence + 1
<1> DEFINE figures == Combined(answer)
<1>0. sequence + 1 \in Nat /\ maintenance \in Modes /\ last \in EngineFigures
  BY DEF ReportKept
<1>1. /\ Measurement \in Figures /\ Measurement # Nil
      /\ Measurement.round = sequence + 1 /\ Measurement.state = maintenance
  BY <1>0, FiguresFacts DEF Measurement
<1>2. ASSUME NEW e \in Engine
      PROVE  /\ figures[e] \in Figures \cup {Nil}
             /\ e \in Answering(answer) => figures[e] = Measurement
             /\ e \notin Answering(answer) /\ e \in Failing(answer) => figures[e] = Carried(e)
             /\ e \notin Answering(answer) /\ e \notin Failing(answer) => figures[e] = Nil
  BY <1>0, <1>1, CarriedFacts DEF Combined
<1>3. figures \in EngineFigures
  BY <1>2 DEF Combined, EngineFigures
<1>4. ASSUME NEW e \in Engine
      PROVE  figures[e] # Nil <=> e \in measured \cup Answering(answer)
  <2>1. e \in measured => e \in Answering(answer) \cup Failing(answer)
    BY RoundFacts DEF ReportKept
  <2>2. e \in measured <=> last[e] # Nil
    BY DEF ReportKept, Figured
  <2> QED
    BY <1>0, <1>1, <1>2, <2>1, <2>2, CarriedFacts
<1>5. Figured(figures) = measured \cup Answering(answer)
  BY <1>4, RoundFacts DEF Figured, ReportKept
<1>6. ASSUME NEW e \in Figured(figures) PROVE figures[e].state = maintenance
  BY <1>0, <1>1, <1>2, <1>6, CarriedFacts DEF Figured
<1>7. ASSUME Failing(answer) = {}, NEW e \in Figured(figures)
      PROVE  figures[e].round = sequence + 1
  BY <1>1, <1>2, <1>7 DEF Figured
<1> HIDE DEF figures
<1>8. /\ figures \in EngineFigures
      /\ Figured(figures) = measured \cup Answering(answer)
      /\ \A e \in Figured(figures) : figures[e].state = maintenance
      /\ Failing(answer) = {} => \A e \in Figured(figures) : figures[e].round = sequence + 1
  BY <1>3, <1>5, <1>6, <1>7
<1> QED
  BY <1>8 DEF figures

LEMMA CollectedFields ==
    ASSUME NEW figures \in EngineFigures, NEW stale \in BOOLEAN
    PROVE  /\ [engines |-> figures, stale |-> stale] \in Collected
           /\ [engines |-> figures, stale |-> stale].engines = figures
           /\ [engines |-> figures, stale |-> stale].stale = stale
BY DEF Collected

LEMMA CollectWhole ==
    ASSUME ReportKept, NEW answer \in Rounds, Collect(answer)
    PROVE  ReportKept'
<1> DEFINE figures == Combined(answer)
<1>1. /\ figures \in EngineFigures
      /\ Figured(figures) = measured \cup Answering(answer)
      /\ \A e \in Figured(figures) : figures[e].state = maintenance
      /\ Failing(answer) = {} => \A e \in Figured(figures) : figures[e].round = sequence + 1
  BY CombinedFacts
<1> HIDE DEF figures
<1>2. /\ fresh' = [engines |-> figures, stale |-> Failing(answer) # {}]
      /\ last' = IF fresh'.engines = NothingKnown THEN last ELSE fresh'.engines
      /\ agent' = "sign" /\ measured' = measured \cup Answering(answer)
      /\ UNCHANGED <<sequence, maintenance, report>>
  BY DEF Collect, agentDisk, figures
<1>3. fresh' \in Collected /\ fresh'.engines = figures /\ (fresh'.stale <=> Failing(answer) # {})
  BY <1>1, <1>2, CollectedFields
<1>4. last' \in EngineFigures /\ measured' = Figured(last')
  <2>1. CASE figures = NothingKnown
    <3>1. Figured(figures) = {}
      BY <2>1 DEF Figured, NothingKnown
    <3> QED
      BY <1>1, <1>2, <1>3, <2>1, <3>1 DEF ReportKept
  <2>2. CASE figures # NothingKnown
    BY <1>1, <1>2, <1>3, <2>2
  <2> QED
    BY <2>1, <2>2
<1>5. measured' \subseteq {Collectors[i] : i \in DOMAIN Collectors}
  BY <1>2, RoundFacts DEF ReportKept
<1>6. WholeTruth'
  BY <1>1, <1>2, <1>3 DEF WholeTruth, Figured
<1> QED
  BY <1>2, <1>3, <1>4, <1>5, <1>6 DEF ReportKept, Figured

LEMMA DiesWhole ==
    ASSUME ReportKept, Dies, sequence' \in Nat, maintenance' \in Modes
    PROVE  ReportKept'
<1>1. NothingKnown \in EngineFigures /\ Figured(NothingKnown) = {}
  BY DEF NothingKnown, EngineFigures, Figured
<1>2. NothingCollected \in Collected
  BY <1>1, CollectedFields DEF NothingCollected
<1>3. last' = NothingKnown /\ measured' = {} /\ agent' = "down" /\ fresh' = NothingCollected
  BY DEF Dies
<1> QED
  BY <1>1, <1>2, <1>3 DEF ReportKept, WholeTruth, Figured

LEMMA ReportStep == ReportKept /\ [AgentNext]_agentVars => ReportKept'
<1> SUFFICES ASSUME ReportKept, [AgentNext]_agentVars PROVE ReportKept'
  OBVIOUS
<1>0. sequence \in Nat /\ sequence + 1 \in Nat /\ maintenance \in Modes
  BY DEF ReportKept
<1>1. CASE Sign
  <2>1. /\ agent = "sign" /\ agent' = "post" /\ report' = sequence + 1 /\ sequence' = sequence + 1
        /\ UNCHANGED <<maintenance, last, fresh, measured>>
    BY <1>1 DEF Sign
  <2>2. WholeTruth'
    BY <2>1 DEF ReportKept, WholeTruth
  <2> QED
    BY <1>0, <2>1, <2>2 DEF ReportKept, Figured
<1>2. CASE SignDies
  BY <1>0, <1>2, DiesWhole DEF SignDies
<1>3. CASE LogFails \/ Kill
  BY <1>0, <1>3, DiesWhole DEF LogFails, Kill, agentDisk
<1>4. CASE StartAgent
  BY <1>4 DEF StartAgent, agentDisk, agentMemory, ReportKept, WholeTruth, Figured
<1>5. CASE Sleep
  BY <1>5 DEF Sleep, agentDisk, ReportKept, WholeTruth, Figured
<1>6. ASSUME NEW answer \in Rounds, Collects(answer) PROVE ReportKept'
  BY <1>0, <1>6, CollectWhole, DiesWhole DEF Collects, CollectDies, agentDisk
<1>7. ASSUME NEW c \in Endpoint, Posts(c) PROVE ReportKept'
  <2>1. /\ agent = "post" /\ UNCHANGED <<sequence, maintenance, last, report, measured>>
        /\ \/ UNCHANGED <<agent, fresh>>
           \/ agent' = "idle" /\ fresh' = NothingCollected
    BY <1>7 DEF Posts, Skip, Answered, Refused, TimesOut, Posted, agentDisk
  <2>2. NothingCollected \in Collected
    BY CollectedFields DEF NothingCollected, NothingKnown, EngineFigures
  <2> QED
    BY <2>1, <2>2 DEF ReportKept, WholeTruth, Figured
<1>8. ASSUME NEW m \in late, Arrives(m) PROVE ReportKept'
  BY <1>8 DEF Arrives, agentDisk, ReportKept, WholeTruth, Figured
<1>9. ASSUME NEW m \in Modes, ChangeMode(m) PROVE ReportKept'
  BY <1>9 DEF ChangeMode, ReportKept, WholeTruth, Figured
<1>10. CASE UNCHANGED agentVars
  BY <1>10 DEF agentVars, ReportKept, WholeTruth, Figured
<1> QED
  BY <1>1, <1>2, <1>3, <1>4, <1>5, <1>6, <1>7, <1>8, <1>9, <1>10
     DEF AgentNext, Around, Collects, Posts

LEMMA ReportKeptInit == AgentInit => ReportKept
<1> SUFFICES ASSUME AgentInit PROVE ReportKept
  OBVIOUS
<1>1. NothingKnown \in EngineFigures /\ Figured(NothingKnown) = {}
  BY DEF NothingKnown, EngineFigures, Figured
<1>2. NothingCollected \in Collected
  BY <1>1, CollectedFields DEF NothingCollected
<1>3. last = NothingKnown /\ fresh = NothingCollected /\ measured = {} /\ agent = "down"
  BY DEF AgentInit
<1>4. sequence \in Nat /\ maintenance \in Modes
  BY AgentAssumption DEF AgentInit
<1> QED
  BY <1>1, <1>2, <1>3, <1>4 DEF ReportKept, WholeTruth

\* A report is the whole host in one state, and says so when it repeats figures
\* (HostAgent._collect_report).
THEOREM ReportsWhole == AgentSpec => []WholeTruth
<1>1. ReportKept => WholeTruth
  BY DEF ReportKept
<1> QED
  BY <1>1, ReportKeptInit, ReportStep, PTL DEF AgentSpec

-----------------------------------------------------------------------------
(* The types of the agent *)

\* What the other invariants leave open.
RestKept ==
    /\ sequence \in Nat
    /\ torn \in BOOLEAN
    /\ attempts \in [Endpoint -> Nat]
    /\ wait \in [Endpoint -> 0 .. RetryMax]
    /\ toPost \subseteq Endpoint
    /\ agentTally \in [DOMAIN AgentBounds -> Nat]
    /\ agent = "post" => report # 0 /\ toPost # {}

LEMMA MinOfTwo ==
    ASSUME NEW a \in Int, NEW b \in Int
    PROVE  Min({a, b}) = IF a <= b THEN a ELSE b
<1>1. \E x \in {a, b} : \A y \in {a, b} : x <= y
  OBVIOUS
<1>2. Min({a, b}) \in {a, b} /\ \A y \in {a, b} : Min({a, b}) <= y
  BY <1>1, Zenon DEF Min
<1> QED
  BY <1>2

LEMMA MaxOfTwo ==
    ASSUME NEW a \in Int, NEW b \in Int
    PROVE  Max({a, b}) = IF a >= b THEN a ELSE b
<1>1. \E x \in {a, b} : \A y \in {a, b} : x >= y
  OBVIOUS
<1>2. Max({a, b}) \in {a, b} /\ \A y \in {a, b} : Max({a, b}) >= y
  BY <1>1, Zenon DEF Max
<1> QED
  BY <1>2

LEMMA PowerOfTwo == \A k \in 0 .. 20 : 2 ^ k \in Nat
<1>1. /\ 2 ^ 0 \in Nat /\ 2 ^ 1 \in Nat /\ 2 ^ 2 \in Nat /\ 2 ^ 3 \in Nat
      /\ 2 ^ 4 \in Nat /\ 2 ^ 5 \in Nat /\ 2 ^ 6 \in Nat /\ 2 ^ 7 \in Nat
      /\ 2 ^ 8 \in Nat /\ 2 ^ 9 \in Nat /\ 2 ^ 10 \in Nat /\ 2 ^ 11 \in Nat
      /\ 2 ^ 12 \in Nat /\ 2 ^ 13 \in Nat /\ 2 ^ 14 \in Nat /\ 2 ^ 15 \in Nat
      /\ 2 ^ 16 \in Nat /\ 2 ^ 17 \in Nat /\ 2 ^ 18 \in Nat /\ 2 ^ 19 \in Nat /\ 2 ^ 20 \in Nat
  OBVIOUS
<1>2. ASSUME NEW k \in 0 .. 20
      PROVE  \/ k = 0 \/ k = 1 \/ k = 2 \/ k = 3 \/ k = 4 \/ k = 5 \/ k = 6
             \/ k = 7 \/ k = 8 \/ k = 9 \/ k = 10 \/ k = 11 \/ k = 12 \/ k = 13
             \/ k = 14 \/ k = 15 \/ k = 16 \/ k = 17 \/ k = 18 \/ k = 19 \/ k = 20
  OBVIOUS
<1> QED
  BY <1>1, <1>2

\* A delay is never above its limit, however often the posts have failed.
LEMMA DelayBounded ==
    ASSUME NEW failures \in Nat \ {0}
    PROVE  Delay(failures) \in 0 .. RetryMax
<1> DEFINE k == Min({failures - 1, 20})
           doubled == RetryBase * 2 ^ k
<1>1. k \in 0 .. 20
  BY MinOfTwo
<1>2. RetryBase \in Nat /\ RetryMax \in Nat
  BY AgentAssumption
<1> HIDE DEF k
<1>3. 2 ^ k \in Nat
  BY <1>1, PowerOfTwo
<1>4. doubled \in Nat
  BY <1>2, <1>3
<1>5. Delay(failures) = Min({RetryMax, doubled})
  BY DEF Delay, k
<1> HIDE DEF doubled
<1>6. Min({RetryMax, doubled}) = IF RetryMax <= doubled THEN RetryMax ELSE doubled
  BY <1>2, <1>4, MinOfTwo
<1> QED
  BY <1>2, <1>4, <1>5, <1>6

LEMMA TalliesTyped ==
    ASSUME agentTally \in [DOMAIN AgentBounds -> Nat],
           \/ UNCHANGED agentTally
           \/ \E b \in {"starts", "modes", "tears"} : Tallies(b)
    PROVE  agentTally' \in [DOMAIN AgentBounds -> Nat]
BY DEF Tallies, AgentBounds

LEMMA PostedRest ==
    ASSUME RestKept, NEW c \in Endpoint, Posts(c)
    PROVE  RestKept'
<1>1. /\ UNCHANGED <<sequence, torn, report, agentTally>> /\ agent = "post"
      /\ toPost' = toPost \ {c} /\ (toPost' # {} \/ agent' = "idle")
  BY DEF Posts, Skip, Answered, Refused, TimesOut, Posted, agentDisk
<1>2. attempts' \in [Endpoint -> Nat] /\ wait' \in [Endpoint -> 0 .. RetryMax]
  <2>1. CASE Skip(c) \/ Answered(c)
    BY <2>1 DEF RestKept, Skip, Answered
  <2>2. CASE BacksOff(c)
    <3>1. /\ attempts' = [attempts EXCEPT ![c] = @ + 1] /\ attempts[c] \in Nat
          /\ wait' = [wait EXCEPT ![c] = Delay(attempts'[c])]
      BY <2>2 DEF BacksOff, RestKept
    <3>2. attempts' \in [Endpoint -> Nat] /\ attempts'[c] \in Nat \ {0}
      BY <3>1 DEF RestKept
    <3>3. Delay(attempts'[c]) \in 0 .. RetryMax
      BY <3>2, DelayBounded
    <3> QED
      BY <3>1, <3>2, <3>3 DEF RestKept
  <2> QED
    BY <2>1, <2>2 DEF Posts, Refused, TimesOut
<1> QED
  BY <1>1, <1>2 DEF RestKept

LEMMA RestStep == RestKept /\ [AgentNext]_agentVars => RestKept'
<1> SUFFICES ASSUME RestKept, [AgentNext]_agentVars
             PROVE  RestKept'
  OBVIOUS
<1>1. CASE Sign
  BY <1>1, AgentAssumption DEF RestKept, Sign
<1>2. ASSUME Dies, torn' \in BOOLEAN, sequence' \in Nat,
             agentTally' \in [DOMAIN AgentBounds -> Nat]
      PROVE  RestKept'
  BY <1>2, AgentAssumption DEF RestKept, Dies
<1>3. CASE SignDies \/ LogFails \/ Kill
  <2>1. sequence' \in Nat /\ Dies
    <3>1. sequence \in Nat
      BY DEF RestKept
    <3>2. CASE SignDies
      BY <3>1, <3>2 DEF SignDies
    <3>3. CASE LogFails \/ Kill
      BY <3>1, <3>3, Zenon DEF LogFails, Kill, agentDisk
    <3> QED
      BY <1>3, <3>2, <3>3
  <2>2. torn' = torn \/ torn' = TRUE
    BY <1>3 DEF SignDies, LogFails, Kill, agentDisk
  <2>3. torn' \in BOOLEAN
    BY <2>2, Zenon DEF RestKept
  <2>4. agentTally' \in [DOMAIN AgentBounds -> Nat]
    BY <1>3, TalliesTyped DEF RestKept, SignDies, LogFails, Kill
  <2> QED
    BY <1>2, <2>1, <2>3, <2>4
<1>4. CASE StartAgent
  BY <1>4, TalliesTyped DEF RestKept, StartAgent, agentDisk, agentMemory
<1>5. CASE Sleep
  <2>1. ASSUME NEW c \in Endpoint
        PROVE  Max({0, wait[c] - 1}) \in 0 .. RetryMax
    <3>1. wait[c] \in 0 .. RetryMax /\ RetryMax \in Nat
      BY AgentAssumption DEF RestKept
    <3> QED
      BY <3>1, MaxOfTwo
  <2> QED
    BY <1>5, <2>1 DEF RestKept, Sleep, agentDisk
<1>6. ASSUME NEW answer \in Rounds, Collects(answer)
      PROVE  RestKept'
  <2>1. CASE Collect(answer)
    BY <2>1 DEF RestKept, Collect, agentDisk
  <2>2. CASE CollectDies(answer)
    BY <1>2, <2>2 DEF RestKept, CollectDies, agentDisk
  <2> QED
    BY <1>6, <2>1, <2>2 DEF Collects
<1>7. ASSUME NEW c \in Endpoint, Posts(c)
      PROVE  RestKept'
  BY <1>7, PostedRest
<1>8. ASSUME NEW m \in late, Arrives(m)
      PROVE  RestKept'
  BY <1>8 DEF RestKept, Arrives, agentDisk
<1>9. ASSUME NEW m \in Modes, ChangeMode(m)
      PROVE  RestKept'
  BY <1>9, TalliesTyped DEF RestKept, ChangeMode
<1>10. CASE UNCHANGED agentVars
  BY <1>10 DEF RestKept, agentVars
<1> QED
  BY <1>1, <1>3, <1>4, <1>5, <1>6, <1>7, <1>8, <1>9, <1>10
     DEF AgentNext, Around, Collects, Posts

\* The types of the agent's state; while it posts there is a controller left,
\* and no wait is longer than the limit (HostAgent.publish, _retry_delay).
THEOREM AgentTypes == AgentSpec => []AgentTypeOK
<1>1. AgentInit => RestKept
  <2> SUFFICES ASSUME AgentInit
               PROVE  RestKept
    OBVIOUS
  <2>1. torn \in BOOLEAN
    BY Zenon DEF AgentInit
  <2> QED
    BY <2>1, AgentAssumption DEF AgentInit, RestKept
<1>2. AgentInit => ReportsKept
  BY DEF AgentInit, ReportsKept, SequenceOnce
<1>3. AgentInit => BackOffKept
  BY DEF AgentInit, BackOffKept, LaggingBacksOff
<1>4. RestKept /\ ReportsKept /\ BackOffKept /\ ReportKept => AgentTypeOK
  <2>1. ReportKept => measured \subseteq Engine
    BY DEF ReportKept, Figured
  <2> QED
    BY <2>1 DEF RestKept, ReportsKept, BackOffKept, ReportKept, AgentTypeOK
<1> QED
  BY <1>1, <1>2, <1>3, <1>4, ReportKeptInit, RestStep, ReportsStep, BackOffStep, ReportStep, PTL
     DEF AgentSpec

-----------------------------------------------------------------------------
(* OperatorCommand *)

\* The types, and a run has a controller left until it has tried them all.
Typed ==
    /\ OperatorTypeOK
    /\ \A c \in Command :
        run[c].at \in {"start", "write", "post"} => run[c].next \in DOMAIN run[c].sites

LEMMA RunFields ==
    ASSUME NEW r \in Run
    PROVE  /\ r.at \in CmdPlaces /\ r.apply \in BOOLEAN /\ r.payload \in Payload
           /\ r.loaded \in Nat /\ r.sites \in Seq(Site)
           /\ r.next \in Nat /\ r.accepted \in Nat
BY DEF Run

LEMMA SignedFields ==
    /\ \A e \in Signed : e.seq \in Nat /\ e.payload \in Payload
    /\ \A n \in Nat, p \in Payload :
        [seq |-> n, payload |-> p] \in Signed /\ [seq |-> n, payload |-> p].seq = n
BY DEF Signed

LEMMA PostFields ==
    ASSUME NEW m \in [to : Site, envelope : Signed]
    PROVE  m.to \in Site /\ m.envelope \in Signed
OBVIOUS

LEMMA ReceiptFields ==
    ASSUME NEW status \in CmdStatuses, NEW n \in Nat, NEW e \in Signed, NEW sites \in Seq(Site)
    PROVE  LET r == [status |-> status, accepted |-> n, envelope |-> e, sites |-> sites]
           IN  /\ r \in CmdReceipt /\ r.status = status /\ r.accepted = n
               /\ r.envelope = e /\ r.sites = sites
BY DEF CmdReceipt

LEMMA EndedFields == Ended \in Run /\ Ended.at = "done"
<1>1. (CHOOSE p \in Payload : TRUE) \in Payload
  BY OperatorAssumption
<1> QED
  BY <1>1 DEF Ended, Run, CmdPlaces

\* The other runs stay where they are.
OnlyRun(c) == run' \in [Command -> Run] /\ \A d \in Command \ {c} : run'[d] = run[d]

\* What a run was started for and what it signs with.
SameJob(c) ==
    /\ run'[c].apply = run[c].apply
    /\ run'[c].payload = run[c].payload

-----------------------------------------------------------------------------
(* The effect of each step on its run *)

\* A run whose controllers, and whose place among them, stay what they are.
SamePosts(c) ==
    /\ run'[c].sites = run[c].sites /\ run'[c].next = run[c].next
    /\ run'[c].accepted = run[c].accepted

LEMMA MovesFacts ==
    ASSUME Typed, NEW c \in Command, NEW place \in CmdPlaces, Moves(c, place)
    PROVE  /\ OnlyRun(c) /\ SameJob(c) /\ SamePosts(c) /\ run'[c].at = place
           /\ run'[c].loaded = run[c].loaded
BY DEF Typed, OperatorTypeOK, Moves, OnlyRun, SameJob, SamePosts, Run

LEMMA EndFacts ==
    ASSUME Typed, NEW c \in Command, run' = [run EXCEPT ![c] = Ended]
    PROVE  OnlyRun(c) /\ run'[c].at = "done"
BY EndedFields DEF Typed, OperatorTypeOK, OnlyRun

LEMMA BeginFacts ==
    ASSUME Typed, NEW c \in Command, NEW apply \in BOOLEAN, NEW payload \in Payload,
           NEW sites \in SiteLists, Begin(c, apply, payload, sites)
    PROVE  /\ OnlyRun(c) /\ run[c].at = "done" /\ run'[c].at = "start"
           /\ run'[c].next \in DOMAIN run'[c].sites /\ run'[c].accepted = 0
<1>1. sites \in Seq(Site) /\ 1 \in DOMAIN sites
  <2>1. PICK n \in 1 .. 2 : sites \in [1 .. n -> Site]
    BY DEF SiteLists
  <2>2. sites \in Seq(Site) /\ DOMAIN sites = 1 .. n
    BY <2>1
  <2> QED
    BY <2>1, <2>2
<1> DEFINE r == [at |-> "start", apply |-> apply, payload |-> payload,
                 loaded |-> 0, sites |-> sites, next |-> 1, accepted |-> 0]
<1>2. r \in Run /\ r.at = "start" /\ r.sites = sites /\ r.next = 1 /\ r.accepted = 0
  BY <1>1 DEF Run, CmdPlaces
<1>3. run' = [run EXCEPT ![c] = r] /\ run[c].at = "done"
  BY DEF Begin
<1> HIDE DEF r
<1> QED
  BY <1>1, <1>2, <1>3 DEF Typed, OperatorTypeOK, OnlyRun

LEMMA LoadFacts ==
    ASSUME Typed, NEW c \in Command, Load(c)
    PROVE  /\ OnlyRun(c) /\ SameJob(c) /\ SamePosts(c)
           /\ run[c].at = "start" /\ run'[c].at = "write" /\ run'[c].loaded = counter
BY DEF Typed, OperatorTypeOK, Load, OnlyRun, SameJob, SamePosts, Run, CmdPlaces

LEMMA WriteFacts ==
    ASSUME Typed, NEW c \in Command, Write(c)
    PROVE  /\ OnlyRun(c) /\ SameJob(c) /\ SamePosts(c) /\ run[c].at = "write"
           /\ run'[c].at = IF run[c].apply THEN "post" ELSE "receipt"
           /\ run'[c].loaded = run[c].loaded + 1
<1> DEFINE place == IF run[c].apply THEN "post" ELSE "receipt"
           number == run[c].loaded + 1
<1>1. /\ run \in [Command -> Run] /\ run[c].at = "write"
      /\ run' = [run EXCEPT ![c].at = place, ![c].loaded = number]
  BY DEF Typed, OperatorTypeOK, Write, Run
<1>2. place \in CmdPlaces /\ number \in Nat
  BY <1>1, RunFields DEF CmdPlaces
<1> HIDE DEF place, number
<1>3. run'[c] = [run[c] EXCEPT !.at = place, !.loaded = number]
  BY <1>1
<1>4. /\ run'[c] \in Run /\ run'[c].at = place /\ run'[c].loaded = number
      /\ SameJob(c) /\ SamePosts(c)
  <2>1. run[c] \in Run
    BY <1>1
  <2> QED
    BY <1>2, <1>3, <2>1 DEF Run, SameJob, SamePosts
<1>5. OnlyRun(c)
  BY <1>1, <1>4 DEF OnlyRun
<1> QED
  BY <1>1, <1>4, <1>5 DEF place, number

LEMMA TriedFacts ==
    ASSUME Typed, NEW c \in Command, NEW success \in BOOLEAN, Tried(c, success)
    PROVE  /\ OnlyRun(c) /\ SameJob(c) /\ run[c].at = "post"
           /\ run'[c].loaded = run[c].loaded /\ run'[c].sites = run[c].sites
           /\ run'[c].next = run[c].next + 1 /\ run[c].next \in DOMAIN run[c].sites
           /\ run'[c].accepted = run[c].accepted + IF success THEN 1 ELSE 0
           /\ \/ run'[c].at = "post" /\ run'[c].next \in DOMAIN run'[c].sites
              \/ run'[c].at = "receipt" /\ run'[c].accepted > 0
              \/ run'[c].at = "failure"
<1> DEFINE next == run[c].next + 1
           accepted == run[c].accepted + IF success THEN 1 ELSE 0
           place == IF run[c].next < Len(run[c].sites) THEN "post"
                    ELSE IF accepted > 0 THEN "receipt" ELSE "failure"
<1>1. /\ run[c] \in Run /\ run[c].sites \in Seq(Site) /\ run[c].next \in Nat
      /\ run[c].accepted \in Nat /\ run[c].next \in DOMAIN run[c].sites
  BY RunFields DEF Typed, OperatorTypeOK, Tried
<1>2. next \in Nat /\ accepted \in Nat /\ place \in CmdPlaces
  BY <1>1 DEF CmdPlaces
<1>3. run' = [run EXCEPT ![c].next = next, ![c].accepted = accepted, ![c].at = place]
  BY DEF Tried
<1>4. \/ place = "post" /\ next \in DOMAIN run[c].sites
      \/ place = "receipt" /\ accepted > 0
      \/ place = "failure"
  BY <1>1
<1>5. accepted = run[c].accepted + (IF success THEN 1 ELSE 0) /\ next = run[c].next + 1
  OBVIOUS
<1> HIDE DEF next, accepted, place
<1>6. /\ run \in [Command -> Run] /\ run[c].at = "post"
  BY DEF Typed, OperatorTypeOK, Tried
<1>7. run'[c] = [run[c] EXCEPT !.next = next, !.accepted = accepted, !.at = place]
  BY <1>3, <1>6
<1>8. /\ run'[c] \in Run /\ run'[c].at = place /\ run'[c].next = next
      /\ run'[c].accepted = accepted /\ run'[c].loaded = run[c].loaded
      /\ run'[c].sites = run[c].sites /\ SameJob(c)
  BY <1>1, <1>2, <1>7 DEF Run, SameJob
<1>9. OnlyRun(c)
  <2>1. \A d \in Command \ {c} : run'[d] = run[d]
    BY <1>3, <1>6
  <2>2. DOMAIN run' = Command /\ run' = [d \in Command |-> run'[d]]
    BY <1>3, <1>6
  <2> QED
    BY <1>6, <1>8, <2>1, <2>2 DEF OnlyRun
<1> QED
  BY <1>1, <1>4, <1>5, <1>6, <1>8, <1>9

LEMMA EnvelopeSigned ==
    ASSUME Typed, NEW c \in Command
    PROVE  /\ Envelope(c) \in Signed /\ Envelope(c).seq = run[c].loaded
           /\ run[c].at = "post" => PostsTo(c) \in Site
<1>1. run[c] \in Run
  BY DEF Typed, OperatorTypeOK
<1>2. run[c].at = "post" => run[c].sites \in Seq(Site) /\ run[c].next \in DOMAIN run[c].sites
  BY <1>1, RunFields DEF Typed
<1> QED
  BY <1>1, <1>2, RunFields, SignedFields DEF Envelope, PostsTo

-----------------------------------------------------------------------------
(* What the controllers hold *)

\* The controllers forget nothing.
Keep == taken' \in [Site -> SUBSET Signed] /\ \A s \in Site : taken[s] \subseteq taken'[s]

LEMMA AcksKeep ==
    ASSUME taken \in [Site -> SUBSET Signed], NEW s \in Site, NEW e \in Signed, Acks(s, e)
    PROVE  Keep /\ e \in taken'[s]
BY DEF Acks, TakeBy, Keep

\* The posts of a list of controllers that went to a holder of an envelope.
Takers(sites, e) == {i \in DOMAIN sites : e \in taken[sites[i]]}
Before(S, n) == {i \in S : i < n}

LEMMA TakersFacts ==
    ASSUME NEW sites \in Seq(Site), NEW e, NEW n \in Nat
    PROVE  /\ IsFiniteSet(Takers(sites, e)) /\ Cardinality(Takers(sites, e)) \in Nat
           /\ IsFiniteSet(Before(Takers(sites, e), n))
           /\ Cardinality(Before(Takers(sites, e), n)) \in Nat
           /\ Cardinality(Before(Takers(sites, e), n)) <= Cardinality(Takers(sites, e))
<1>1. /\ Takers(sites, e) \subseteq 1 .. Len(sites) /\ Len(sites) \in Nat
      /\ Before(Takers(sites, e), n) \subseteq Takers(sites, e)
  BY DEF Takers, Before
<1>2. IsFiniteSet(1 .. Len(sites))
  BY <1>1, FS_Interval
<1>3. IsFiniteSet(Takers(sites, e)) /\ IsFiniteSet(Before(Takers(sites, e), n))
  BY <1>1, <1>2, FS_Subset
<1> QED
  BY <1>1, <1>3, FS_Subset, FS_CardinalityType

\* More posts may have gone to a holder, never fewer.
LEMMA TakersGrow ==
    ASSUME Keep, NEW sites \in Seq(Site), NEW e, NEW n \in Nat
    PROVE  /\ Takers(sites, e) \subseteq Takers(sites, e)'
           /\ IsFiniteSet(Takers(sites, e)') /\ Cardinality(Takers(sites, e)') \in Nat
           /\ Cardinality(Takers(sites, e)) <= Cardinality(Takers(sites, e)')
           /\ IsFiniteSet(Before(Takers(sites, e), n)')
           /\ Cardinality(Before(Takers(sites, e), n)') \in Nat
           /\ Cardinality(Before(Takers(sites, e), n)) <= Cardinality(Before(Takers(sites, e), n)')
<1> DEFINE S == Takers(sites, e)
           T == Takers(sites, e)'
<1>1. S \subseteq T /\ T \subseteq 1 .. Len(sites) /\ Len(sites) \in Nat
  BY DEF Takers, Keep
<1>2. IsFiniteSet(1 .. Len(sites))
  BY <1>1, FS_Interval
<1>3. IsFiniteSet(T)
  BY <1>1, <1>2, FS_Subset
<1>4. Before(S, n) \subseteq Before(T, n) /\ Before(T, n) \subseteq T
  BY <1>1 DEF Before
<1>5. Before(Takers(sites, e), n)' = Before(T, n)
  BY DEF Before
<1>6. IsFiniteSet(Before(T, n))
  BY <1>3, <1>4, FS_Subset
<1> HIDE DEF S, T
<1>7. /\ Cardinality(T) \in Nat /\ Cardinality(S) <= Cardinality(T)
      /\ Cardinality(Before(T, n)) \in Nat
      /\ Cardinality(Before(S, n)) <= Cardinality(Before(T, n))
  BY <1>1, <1>3, <1>4, <1>6, FS_Subset, FS_CardinalityType
<1> QED
  BY <1>1, <1>3, <1>5, <1>6, <1>7 DEF S, T

\* An attempt to post may give the envelope to its controller.
LEMMA AttemptFacts ==
    ASSUME Typed, NEW c \in Command, Acknowledged(c) \/ Declined(c) \/ Unheard(c)
    PROVE  Keep /\ unanswered' \subseteq [to : Site, envelope : Signed]
<1>1. /\ Envelope(c) \in Signed /\ PostsTo(c) \in Site
      /\ taken \in [Site -> SUBSET Signed] /\ unanswered \subseteq [to : Site, envelope : Signed]
  BY EnvelopeSigned DEF Typed, OperatorTypeOK, Acknowledged, Declined, Unheard, Tried
<1>2. CASE Acks(PostsTo(c), Envelope(c)) /\ UNCHANGED unanswered
  BY <1>1, <1>2, AcksKeep
<1>3. CASE UNCHANGED <<taken, unanswered>>
  BY <1>1, <1>3 DEF Keep
<1>4. CASE /\ unanswered' = unanswered \cup {[to |-> PostsTo(c), envelope |-> Envelope(c)]}
           /\ UNCHANGED taken
  BY <1>1, <1>4 DEF Keep
<1> QED
  BY <1>2, <1>3, <1>4 DEF Acknowledged, Declined, Unheard

LEMMA ArrivesFacts ==
    ASSUME Typed, NEW m \in unanswered, ArrivesLate(m)
    PROVE  Keep /\ unanswered' \subseteq [to : Site, envelope : Signed]
<1>1. /\ m.to \in Site /\ m.envelope \in Signed /\ unanswered' = unanswered \ {m}
      /\ taken \in [Site -> SUBSET Signed] /\ unanswered \subseteq [to : Site, envelope : Signed]
  BY PostFields DEF Typed, OperatorTypeOK, ArrivesLate
<1>2. CASE TakeBy(m.to, m.envelope)
  BY <1>1, <1>2, AcksKeep DEF Acks
<1>3. CASE UNCHANGED taken
  BY <1>1, <1>3 DEF Keep
<1> QED
  BY <1>1, <1>2, <1>3 DEF ArrivesLate

LEMMA SameKeeps ==
    ASSUME Typed, UNCHANGED taken
    PROVE  Keep
BY DEF Typed, OperatorTypeOK, Keep

-----------------------------------------------------------------------------
(* Types *)

Attempts(c) == Acknowledged(c) \/ Declined(c) \/ Unheard(c)
Records(c) == Succeeds(c) \/ Fails(c)

LEMMA OperatorCases ==
    ASSUME [OperatorNext]_operatorVars
    PROVE  \/ \E c \in Command :
                \/ \E apply \in BOOLEAN, p \in Payload, sites \in SiteLists :
                       Begin(c, apply, p, sites)
                \/ Load(c) \/ Write(c) \/ WriteFails(c) \/ Attempts(c) \/ Records(c)
                \/ ReceiptFails(c) \/ KillCommand(c)
           \/ \E m \in unanswered : ArrivesLate(m)
           \/ UNCHANGED operatorVars
BY DEF OperatorNext, Attempts, Records

LEMMA TallyType ==
    ASSUME Typed, [OperatorNext]_operatorVars
    PROVE  cmdTally' \in [DOMAIN CmdBound -> Nat]
<1>1. ASSUME NEW b, Counts(b) PROVE cmdTally' \in [DOMAIN CmdBound -> Nat]
  <2>1. cmdTally \in [DOMAIN CmdBound -> Nat] /\ cmdTally' = [cmdTally EXCEPT ![b] = @ + 1]
    BY <1>1 DEF Typed, OperatorTypeOK, Counts
  <2>2. CASE b \in DOMAIN CmdBound
    BY <2>1, <2>2
  <2>3. CASE b \notin DOMAIN CmdBound
    BY <2>1, <2>3
  <2> QED
    BY <2>2, <2>3
<1>2. CASE UNCHANGED cmdTally
  BY <1>2 DEF Typed, OperatorTypeOK
<1> QED
  BY <1>1, <1>2, OperatorCases
     DEF Begin, Load, Write, WriteFails, Attempts, Acknowledged, Declined, Unheard, Tried, Records,
         Succeeds, Fails, Recorded, ReceiptFails, KillCommand, ArrivesLate, operatorVars

\* A step of one run that moves it in or out of the lock with the lock.
LEMMA RunKeepsType ==
    ASSUME Typed, NEW c \in Command, OnlyRun(c),
           cmdTally' \in [DOMAIN CmdBound -> Nat],
           counter' \in Nat, taken' \in [Site -> SUBSET Signed],
           unanswered' \subseteq [to : Site, envelope : Signed],
           receipts' \subseteq CmdReceipt, allocated' \in Seq(Nat),
           \/ flock' = flock /\ (flock = c <=> run'[c].at = "write")
           \/ flock \in {c, Unlocked} /\ flock' = c /\ run'[c].at = "write"
           \/ flock = c /\ flock' = Unlocked /\ run'[c].at # "write",
           run'[c].at \in {"start", "write", "post"} => run'[c].next \in DOMAIN run'[c].sites
    PROVE  Typed'
<1>1. flock' \in Command \cup {Unlocked} /\ Unlocked \notin Command
  BY OperatorAssumption DEF Typed, OperatorTypeOK
<1>2. \A d \in Command : flock' = d <=> run'[d].at = "write"
  BY <1>1 DEF Typed, OperatorTypeOK, OnlyRun
<1> QED
  BY <1>1, <1>2 DEF Typed, OperatorTypeOK, OnlyRun

LEMMA TypeStep == Typed /\ [OperatorNext]_operatorVars => Typed'
<1> SUFFICES ASSUME Typed, [OperatorNext]_operatorVars PROVE Typed'
  OBVIOUS
<1>0. /\ cmdTally' \in [DOMAIN CmdBound -> Nat]
      /\ counter \in Nat /\ taken \in [Site -> SUBSET Signed]
      /\ unanswered \subseteq [to : Site, envelope : Signed]
      /\ receipts \subseteq CmdReceipt /\ allocated \in Seq(Nat)
      /\ flock \in Command \cup {Unlocked} /\ Unlocked \notin Command
      /\ \A c \in Command : flock = c <=> run[c].at = "write"
  BY TallyType, OperatorAssumption DEF Typed, OperatorTypeOK
<1>00. \A c \in Command : run[c] \in Run
  BY DEF Typed, OperatorTypeOK
<1>1. ASSUME NEW c \in Command, NEW apply \in BOOLEAN, NEW p \in Payload, NEW sites \in SiteLists,
             Begin(c, apply, p, sites)
      PROVE  Typed'
  BY <1>0, <1>1, BeginFacts, RunKeepsType DEF Begin
<1>2. ASSUME NEW c \in Command, Load(c) PROVE Typed'
  <2>1. flock = Unlocked /\ flock' = c /\ UNCHANGED <<counter, unanswered, taken, receipts, allocated>>
    BY <1>2 DEF Load
  <2>2. run'[c].next \in DOMAIN run'[c].sites
    BY <1>2, LoadFacts DEF Typed, SamePosts
  <2> QED
    BY <1>0, <1>2, <2>1, <2>2, LoadFacts, RunKeepsType
<1>3. ASSUME NEW c \in Command, Write(c) PROVE Typed'
  <2>1. /\ flock = c /\ flock' = Unlocked /\ run'[c].at \in {"post", "receipt"}
        /\ run'[c].next \in DOMAIN run'[c].sites /\ UNCHANGED <<unanswered, taken, receipts>>
    BY <1>0, <1>3, WriteFacts DEF Write, Typed, SamePosts
  <2>2. counter' \in Nat /\ allocated' \in Seq(Nat)
    BY <1>0, <1>00, <1>3, RunFields DEF Write
  <2> QED
    BY <1>0, <1>3, <2>1, <2>2, WriteFacts, RunKeepsType
<1>4. ASSUME NEW c \in Command, WriteFails(c) PROVE Typed'
  <2>1. /\ flock = c /\ flock' = Unlocked /\ UNCHANGED <<unanswered, taken, receipts, allocated>>
        /\ Moves(c, "failure")
    BY <1>0, <1>4 DEF WriteFails
  <2>2. counter' \in Nat
    BY <1>0, <1>00, <1>4, RunFields DEF WriteFails
  <2> QED
    BY <1>0, <2>1, <2>2, MovesFacts, RunKeepsType DEF CmdPlaces
<1>5. ASSUME NEW c \in Command, Attempts(c) PROVE Typed'
  <2>1. PICK success \in BOOLEAN : Tried(c, success)
    BY <1>5 DEF Attempts, Acknowledged, Declined, Unheard
  <2>2. UNCHANGED <<counter, flock, receipts, allocated>>
    BY <2>1 DEF Tried
  <2>3. run[c].at = "post" /\ run'[c].at # "write" /\ run'[c].at # "start" /\ OnlyRun(c)
        /\ (run'[c].at = "post" => run'[c].next \in DOMAIN run'[c].sites)
    BY <2>1, TriedFacts
  <2>4. taken' \in [Site -> SUBSET Signed] /\ unanswered' \subseteq [to : Site, envelope : Signed]
    BY <1>5, AttemptFacts DEF Attempts, Keep
  <2> QED
    BY <1>0, <2>2, <2>3, <2>4, RunKeepsType
<1>6. ASSUME NEW c \in Command, Records(c) PROVE Typed'
  <2>1. PICK status \in CmdStatuses :
          Recorded(c, status) /\ run[c].at \in {"receipt", "failure"}
    BY <1>6 DEF Records, Succeeds, Fails, CmdStatuses
  <2>2. receipts' \subseteq CmdReceipt
    BY <1>0, <1>00, <2>1, RunFields, EnvelopeSigned, ReceiptFields DEF Recorded
  <2>3. /\ run' = [run EXCEPT ![c] = Ended]
        /\ UNCHANGED <<counter, flock, unanswered, taken, allocated>>
    BY <2>1 DEF Recorded
  <2> QED
    BY <1>0, <2>1, <2>2, <2>3, EndFacts, RunKeepsType
<1>7. ASSUME NEW c \in Command, ReceiptFails(c) PROVE Typed'
  BY <1>0, <1>7, MovesFacts, RunKeepsType DEF ReceiptFails, CmdPlaces
<1>8. ASSUME NEW c \in Command, KillCommand(c) PROVE Typed'
  BY <1>0, <1>8, EndFacts, RunKeepsType DEF KillCommand
<1>9. ASSUME NEW m \in unanswered, ArrivesLate(m) PROVE Typed'
  BY <1>0, <1>9, ArrivesFacts DEF ArrivesLate, Keep, Typed, OperatorTypeOK
<1>10. CASE UNCHANGED operatorVars
  BY <1>10 DEF operatorVars, Typed, OperatorTypeOK
<1> QED
  BY <1>1, <1>2, <1>3, <1>4, <1>5, <1>6, <1>7, <1>8, <1>9, <1>10, OperatorCases

LEMMA TypedInit == OperatorInit => Typed
<1> SUFFICES ASSUME OperatorInit PROVE Typed
  OBVIOUS
<1>4. run \in [Command -> Run] /\ \A c \in Command : run[c].at = "done"
  BY EndedFields DEF OperatorInit
<1>5. /\ flock = Unlocked /\ counter = 0 /\ unanswered = {} /\ taken = [s \in Site |-> {}]
      /\ receipts = {} /\ allocated = <<>> /\ cmdTally = [b \in DOMAIN CmdBound |-> 0]
  BY DEF OperatorInit
<1>6. allocated \in Seq(Nat) /\ taken \in [Site -> SUBSET Signed]
  BY <1>5
<1> QED
  BY <1>4, <1>5, <1>6, OperatorAssumption DEF Typed, OperatorTypeOK

\* The types of a command's state, and the lock is held exactly while a run is
\* between reading the sequence and writing it (SequenceAllocator.allocate).
THEOREM OperatorTypes == OperatorSpec => []OperatorTypeOK
<1>1. Typed => OperatorTypeOK
  BY DEF Typed
<1> QED
  BY <1>1, TypedInit, TypeStep, PTL DEF OperatorSpec

-----------------------------------------------------------------------------
(* Sequences *)

\* The holder of the lock has read what the file says, and nothing that was
\* handed out is above it.
NumbersKept ==
    /\ \A c \in Command : run[c].at = "write" => run[c].loaded = counter
    /\ \A i \in DOMAIN allocated : allocated[i] <= counter
    /\ SequencesGrow

LEMMA CounterGrows ==
    ASSUME Typed, NumbersKept, [OperatorNext]_operatorVars
    PROVE  /\ counter \in Nat /\ counter' \in Nat /\ counter <= counter'
           /\ \A c \in Command : Write(c) => run[c].loaded = counter /\ counter' = counter + 1
<1>1. counter \in Nat
  BY DEF Typed, OperatorTypeOK
<1>2. \A c \in Command : run[c].at = "write" => run[c].loaded = counter
  BY DEF NumbersKept
<1>3. CASE \E c \in Command : Write(c) \/ WriteFails(c)
  BY <1>1, <1>2, <1>3 DEF Write, WriteFails
<1>4. CASE UNCHANGED counter
  BY <1>1, <1>2, <1>4 DEF Write
<1> QED
  BY <1>3, <1>4, OperatorCases
     DEF Begin, Load, Attempts, Acknowledged, Declined, Unheard, Tried, Records,
         Succeeds, Fails, Recorded, ReceiptFails, KillCommand, ArrivesLate, operatorVars

LEMMA WriteGrows ==
    ASSUME Typed, NumbersKept, NEW c \in Command, Write(c)
    PROVE  NumbersKept'
<1>0. /\ run[c].at = "write" /\ run[c].loaded = counter /\ counter' = counter + 1 /\ counter \in Nat
      /\ allocated' = Append(allocated, counter + 1) /\ allocated \in Seq(Nat)
  BY DEF NumbersKept, Write, Typed, OperatorTypeOK
<1>1. /\ DOMAIN allocated' = 1 .. Len(allocated) + 1 /\ DOMAIN allocated = 1 .. Len(allocated)
      /\ Len(allocated) \in Nat
      /\ \A i \in DOMAIN allocated : allocated'[i] = allocated[i] /\ allocated[i] \in Nat
      /\ allocated'[Len(allocated) + 1] = counter + 1
  BY <1>0
<1>2. \A i \in DOMAIN allocated' : allocated'[i] <= counter'
  BY <1>0, <1>1 DEF NumbersKept
<1>3. SequencesGrow'
  <2> SUFFICES ASSUME NEW i \in DOMAIN allocated', NEW j \in DOMAIN allocated', i < j
               PROVE  allocated'[i] < allocated'[j]
    BY DEF SequencesGrow
  <2>1. i \in DOMAIN allocated
    BY <1>1
  <2>2. CASE j \in DOMAIN allocated
    BY <1>1, <2>1, <2>2 DEF NumbersKept, SequencesGrow
  <2>3. CASE j = Len(allocated) + 1
    BY <1>0, <1>1, <2>1, <2>3 DEF NumbersKept
  <2> QED
    BY <1>1, <2>2, <2>3
<1>4. \A d \in Command : run'[d].at # "write"
  <2>1. \A d \in Command \ {c} : run[d].at # "write"
    BY <1>0 DEF Typed, OperatorTypeOK
  <2> QED
    BY <2>1, WriteFacts DEF OnlyRun
<1> QED
  BY <1>2, <1>3, <1>4 DEF NumbersKept

LEMMA NumbersStep == Typed /\ NumbersKept /\ [OperatorNext]_operatorVars => NumbersKept'
<1> SUFFICES ASSUME Typed, NumbersKept, [OperatorNext]_operatorVars PROVE NumbersKept'
  OBVIOUS
<1>0. /\ counter \in Nat /\ counter' \in Nat /\ counter <= counter'
      /\ allocated \in Seq(Nat)
      /\ \A c \in Command : flock = c <=> run[c].at = "write"
      /\ Unlocked \notin Command
  BY CounterGrows, OperatorAssumption DEF Typed, OperatorTypeOK
<1>1. ASSUME UNCHANGED allocated,
             \A c \in Command : run'[c].at = "write" => run'[c].loaded = counter'
      PROVE  NumbersKept'
  <2>1. \A i \in DOMAIN allocated : allocated[i] \in Nat
    BY <1>0
  <2> QED
    BY <1>0, <1>1, <2>1 DEF NumbersKept, SequencesGrow
\* A step of one run, with the counter unchanged or nobody else in the lock.
<1>2. ASSUME NEW c \in Command, OnlyRun(c), UNCHANGED allocated,
             run'[c].at = "write" => run'[c].loaded = counter',
             UNCHANGED counter \/ run[c].at = "write"
      PROVE  NumbersKept'
  <2>1. \A d \in Command \ {c} : run'[d] = run[d]
    BY <1>2 DEF OnlyRun
  <2>2. ASSUME NEW d \in Command, run'[d].at = "write" PROVE run'[d].loaded = counter'
    BY <1>0, <1>2, <2>1, <2>2 DEF NumbersKept
  <2> QED
    BY <1>1, <1>2, <2>2
<1>3. ASSUME NEW c \in Command, NEW apply \in BOOLEAN, NEW p \in Payload, NEW sites \in SiteLists,
             Begin(c, apply, p, sites)
      PROVE  NumbersKept'
  BY <1>2, <1>3, BeginFacts DEF Begin
<1>4. ASSUME NEW c \in Command, Load(c) PROVE NumbersKept'
  BY <1>2, <1>4, LoadFacts DEF Load
<1>5. ASSUME NEW c \in Command, Write(c) PROVE NumbersKept'
  BY <1>5, WriteGrows
<1>6. ASSUME NEW c \in Command, WriteFails(c) PROVE NumbersKept'
  <2>1. run[c].at = "write" /\ Moves(c, "failure") /\ UNCHANGED allocated
    BY <1>6 DEF WriteFails
  <2> QED
    BY <1>2, <2>1, MovesFacts DEF CmdPlaces
<1>7. ASSUME NEW c \in Command, Attempts(c) PROVE NumbersKept'
  <2>1. PICK success \in BOOLEAN : Tried(c, success)
    BY <1>7 DEF Attempts, Acknowledged, Declined, Unheard
  <2>2. OnlyRun(c) /\ run'[c].at # "write" /\ UNCHANGED <<counter, allocated>>
    BY <2>1, TriedFacts DEF Tried
  <2> QED
    BY <1>2, <2>2
<1>8. ASSUME NEW c \in Command, Records(c) \/ ReceiptFails(c) \/ KillCommand(c) PROVE NumbersKept'
  <2>1. Moves(c, "failure") \/ run' = [run EXCEPT ![c] = Ended]
    BY <1>8 DEF Records, Succeeds, Fails, Recorded, ReceiptFails, KillCommand
  <2>2. UNCHANGED <<counter, allocated>>
    BY <1>8 DEF Records, Succeeds, Fails, Recorded, ReceiptFails, KillCommand
  <2> QED
    BY <1>2, <2>1, <2>2, MovesFacts, EndFacts DEF CmdPlaces
<1>9. CASE UNCHANGED <<run, counter, allocated>>
  BY <1>1, <1>9 DEF NumbersKept
<1> QED
  BY <1>3, <1>4, <1>5, <1>6, <1>7, <1>8, <1>9, OperatorCases DEF ArrivesLate, operatorVars

LEMMA SequenceInit == OperatorInit => NumbersKept
BY EndedFields DEF OperatorInit, NumbersKept, SequencesGrow

\* No sequence is handed out twice, however commands overlap and fail
\* (SequenceAllocator.allocate).
THEOREM SequencesUnique == OperatorSpec => []SequencesGrow
<1>1. NumbersKept => SequencesGrow
  BY DEF NumbersKept
<1> QED
  BY <1>1, TypedInit, TypeStep, SequenceInit, NumbersStep, PTL DEF OperatorSpec

-----------------------------------------------------------------------------
(* Receipts: what was accepted stays accepted *)

\* A run that has been given a sequence and has not recorded what it did.
Holding(c) == run[c].at \in {"post", "receipt"}

\* The posts of a run, before the next one, that went to a holder of its envelope.
Confirmed(c) == Before(Takers(run[c].sites, Envelope(c)), run[c].next)

\* What a run has counted, its posts were answered for; a receipt repeats it.
CountKept ==
    /\ \A c \in Command : run[c].at \in {"start", "write"} => run[c].accepted = 0
    /\ \A c \in Command : Holding(c) => run[c].accepted <= Cardinality(Confirmed(c))
    /\ \A c \in Command : run[c].at = "receipt" /\ run[c].apply => run[c].accepted >= 1
    /\ \A r \in receipts :
        r.status = "applied" => r.accepted \in 1 .. Cardinality(Takers(r.sites, r.envelope))

LEMMA ConfirmedFacts ==
    ASSUME Typed, NEW c \in Command
    PROVE  /\ run[c].sites \in Seq(Site) /\ run[c].next \in Nat /\ run[c].accepted \in Nat
           /\ IsFiniteSet(Confirmed(c)) /\ Cardinality(Confirmed(c)) \in Nat
<1>1. run[c].sites \in Seq(Site) /\ run[c].next \in Nat /\ run[c].accepted \in Nat
  BY RunFields DEF Typed, OperatorTypeOK
<1> QED
  BY <1>1, TakersFacts DEF Confirmed

LEMMA ConfirmedNext ==
    ASSUME Typed', NEW c \in Command
    PROVE  IsFiniteSet(Confirmed(c)') /\ Cardinality(Confirmed(c)') \in Nat
<1>1. run'[c].sites \in Seq(Site) /\ run'[c].next \in Nat
  BY RunFields DEF Typed, OperatorTypeOK
<1> DEFINE sites == run'[c].sites
           next == run'[c].next
           S == {i \in DOMAIN sites : Envelope(c)' \in taken'[sites[i]] /\ i < next}
<1>2. Confirmed(c)' = S
  BY DEF Confirmed, Before, Takers
<1>3. S \subseteq 1 .. Len(sites) /\ Len(sites) \in Nat
  BY <1>1
<1>4. IsFiniteSet(1 .. Len(sites))
  BY <1>3, FS_Interval
<1> HIDE DEF S, sites
<1>5. IsFiniteSet(S)
  BY <1>3, <1>4, FS_Subset
<1> QED
  BY <1>2, <1>5, FS_CardinalityType

\* A run that goes on with what it was started for keeps what was confirmed.
LEMMA ConfirmedGrow ==
    ASSUME Typed, Typed', Keep, NEW c \in Command,
           run'[c].sites = run[c].sites, run'[c].loaded = run[c].loaded,
           run'[c].payload = run[c].payload, run[c].next <= run'[c].next
    PROVE  /\ Confirmed(c) \subseteq Confirmed(c)'
           /\ Cardinality(Confirmed(c)) <= Cardinality(Confirmed(c)')
<1> DEFINE sites == run[c].sites
           e == Envelope(c)
           S == Confirmed(c)
           T == Confirmed(c)'
<1>1. /\ sites \in Seq(Site) /\ run[c].next \in Nat /\ run'[c].next \in Nat
  BY ConfirmedFacts, RunFields DEF Typed, OperatorTypeOK
<1>2. Envelope(c)' = e /\ run'[c].sites = sites
  BY DEF Envelope
<1>3. /\ S = {i \in DOMAIN sites : e \in taken[sites[i]] /\ i < run[c].next}
      /\ T = {i \in DOMAIN sites : e \in taken'[sites[i]] /\ i < run'[c].next}
  BY <1>2 DEF Confirmed, Before, Takers
<1>4. \A i \in DOMAIN sites : i \in Nat /\ taken[sites[i]] \subseteq taken'[sites[i]]
  BY <1>1 DEF Keep
<1> HIDE DEF sites, e
<1>5. S \subseteq T
  BY <1>1, <1>3, <1>4
<1>6. IsFiniteSet(T)
  BY ConfirmedNext
<1> HIDE DEF S, T
<1>7. Cardinality(S) <= Cardinality(T)
  BY <1>5, <1>6, FS_Subset
<1> QED
  BY <1>5, <1>7 DEF S, T

\* An acknowledged post is one more.
LEMMA OneMore ==
    ASSUME Typed, Typed', NEW c \in Command, Acknowledged(c)
    PROVE  Cardinality(Confirmed(c)) + 1 <= Cardinality(Confirmed(c)')
<1> DEFINE sites == run[c].sites
           e == Envelope(c)
           n == run[c].next
           S == Confirmed(c)
           T == Confirmed(c)'
<1>1. Tried(c, TRUE) /\ Acks(PostsTo(c), e)
  BY DEF Acknowledged
<1>2. /\ SameJob(c) /\ run[c].at = "post" /\ run'[c].loaded = run[c].loaded
      /\ run'[c].sites = sites /\ run'[c].next = n + 1 /\ n \in DOMAIN sites
  BY <1>1, TriedFacts
<1>3. sites \in Seq(Site) /\ n \in Nat
  BY ConfirmedFacts
<1>4. Keep /\ e \in taken'[PostsTo(c)] /\ PostsTo(c) = sites[n]
  <2>1. PostsTo(c) \in Site /\ e \in Signed /\ taken \in [Site -> SUBSET Signed]
    BY <1>2, EnvelopeSigned DEF Typed, OperatorTypeOK
  <2> HIDE DEF e
  <2>2. Keep /\ e \in taken'[PostsTo(c)]
    BY <1>1, <2>1, AcksKeep
  <2> QED
    BY <2>2 DEF PostsTo
<1>5. S \subseteq T
  <2>1. run'[c].payload = run[c].payload /\ run[c].next <= run'[c].next
    BY <1>2, <1>3 DEF SameJob
  <2> QED
    BY <1>2, <1>4, <2>1, ConfirmedGrow
<1>6. Envelope(c)' = e
  BY <1>2 DEF Envelope, SameJob
<1>7. n \in T /\ n \notin S
  <2>1. /\ S = {i \in DOMAIN sites : e \in taken[sites[i]] /\ i < n}
        /\ T = {i \in DOMAIN sites : e \in taken'[sites[i]] /\ i < n + 1}
    BY <1>2, <1>6 DEF Confirmed, Before, Takers
  <2> HIDE DEF S, T, e, sites, n
  <2> QED
    BY <1>2, <1>3, <1>4, <2>1
<1>8. IsFiniteSet(S) /\ Cardinality(S) \in Nat /\ IsFiniteSet(T)
  BY ConfirmedFacts, ConfirmedNext
<1> HIDE DEF S, T, n, e, sites
<1>9. Cardinality(S \cup {n}) = Cardinality(S) + 1
  BY <1>7, <1>8, FS_AddElement
<1>10. Cardinality(S \cup {n}) <= Cardinality(T)
  BY <1>5, <1>7, <1>8, FS_Subset
<1> QED
  BY <1>9, <1>10 DEF S, T

LEMMA UntouchedRun ==
    ASSUME Typed, Typed', CountKept, Keep, NEW d \in Command, run'[d] = run[d], Holding(d)'
    PROVE  run'[d].accepted <= Cardinality(Confirmed(d)')
<1>1. Holding(d) /\ run[d].next \in Nat /\ run[d].accepted \in Nat
  BY ConfirmedFacts DEF Holding
<1>2. /\ Cardinality(Confirmed(d)) \in Nat /\ Cardinality(Confirmed(d)') \in Nat
      /\ Cardinality(Confirmed(d)) <= Cardinality(Confirmed(d)')
  BY <1>1, ConfirmedFacts, ConfirmedNext, ConfirmedGrow
<1>3. run[d].accepted <= Cardinality(Confirmed(d))
  BY <1>1 DEF CountKept
<1> QED
  BY <1>1, <1>2, <1>3

\* What a receipt counts stays true of it.
LEMMA ReceiptsFrame ==
    ASSUME Typed, CountKept, Keep, NEW r \in receipts, r.status = "applied"
    PROVE  r.accepted \in 1 .. Cardinality(Takers(r.sites, r.envelope)')
<1> DEFINE n == Cardinality(Takers(r.sites, r.envelope))
           m == Cardinality(Takers(r.sites, r.envelope)')
<1>1. r.accepted \in 1 .. n /\ r.sites \in Seq(Site)
  BY DEF CountKept, Typed, OperatorTypeOK, CmdReceipt
<1>2. n \in Nat /\ m \in Nat /\ n <= m
  BY <1>1, TakersFacts, TakersGrow
<1> HIDE DEF n, m
<1>3. r.accepted \in 1 .. m
  BY <1>1, <1>2
<1> QED
  BY <1>3 DEF m

\* A step of one run that keeps its count and adds no receipt.
LEMMA CountFrame ==
    ASSUME Typed, Typed', CountKept, Keep, NEW c \in Command, OnlyRun(c),
           run'[c].at \in {"start", "write"} => run'[c].accepted = 0,
           Holding(c)' => run'[c].accepted <= Cardinality(Confirmed(c)'),
           run'[c].at = "receipt" /\ run'[c].apply => run'[c].accepted >= 1,
           \A r \in receipts' \ receipts :
               r.status = "applied" =>
                   r.accepted \in 1 .. Cardinality(Takers(r.sites, r.envelope)')
    PROVE  CountKept'
<1>1. \A d \in Command \ {c} : run'[d] = run[d]
  BY DEF OnlyRun
<1>2. \A d \in Command : Holding(d)' => run'[d].accepted <= Cardinality(Confirmed(d)')
  BY <1>1, UntouchedRun
<1>3. \A r \in receipts' :
        r.status = "applied" =>
            r.accepted \in 1 .. Cardinality(Takers(r.sites, r.envelope)')
  BY ReceiptsFrame
<1>4. \A d \in Command : run'[d].at \in {"start", "write"} => run'[d].accepted = 0
  BY <1>1 DEF CountKept
<1>5. \A d \in Command : run'[d].at = "receipt" /\ run'[d].apply => run'[d].accepted >= 1
  BY <1>1 DEF CountKept
<1> QED
  BY <1>2, <1>3, <1>4, <1>5 DEF CountKept

LEMMA CountStep == Typed /\ Typed' /\ CountKept /\ [OperatorNext]_operatorVars => CountKept'
<1> SUFFICES ASSUME Typed, Typed', CountKept, [OperatorNext]_operatorVars PROVE CountKept'
  OBVIOUS
<1>1. ASSUME NEW c \in Command, NEW apply \in BOOLEAN, NEW p \in Payload, NEW sites \in SiteLists,
             Begin(c, apply, p, sites)
      PROVE  CountKept'
  <2>1. Keep /\ receipts' = receipts
    BY <1>1, SameKeeps DEF Begin
  <2>2. OnlyRun(c) /\ run'[c].at = "start" /\ run'[c].accepted = 0
    BY <1>1, BeginFacts
  <2> QED
    BY <2>1, <2>2, CountFrame DEF Holding
<1>2. ASSUME NEW c \in Command, Load(c) PROVE CountKept'
  <2>1. Keep /\ receipts' = receipts
    BY <1>2, SameKeeps DEF Load
  <2>2. OnlyRun(c) /\ run'[c].at = "write" /\ run'[c].accepted = 0
    BY <1>2, LoadFacts DEF SamePosts, CountKept
  <2> QED
    BY <2>1, <2>2, CountFrame DEF Holding
<1>3. ASSUME NEW c \in Command, Write(c) PROVE CountKept'
  <2>1. Keep /\ receipts' = receipts
    BY <1>3, SameKeeps DEF Write
  <2>2. /\ OnlyRun(c) /\ run'[c].apply = run[c].apply /\ run'[c].accepted = 0
        /\ run'[c].at = IF run[c].apply THEN "post" ELSE "receipt"
    BY <1>3, WriteFacts DEF SamePosts, SameJob, CountKept
  <2>3. run'[c].accepted <= Cardinality(Confirmed(c)')
    BY <2>2, ConfirmedNext
  <2> QED
    BY <2>1, <2>2, <2>3, CountFrame
<1>4. ASSUME NEW c \in Command, WriteFails(c) \/ ReceiptFails(c) PROVE CountKept'
  <2>1. Moves(c, "failure") /\ UNCHANGED taken /\ receipts' = receipts /\ "failure" \in CmdPlaces
    BY <1>4 DEF WriteFails, ReceiptFails, CmdPlaces
  <2>2. Keep /\ OnlyRun(c) /\ run'[c].at = "failure"
    BY <2>1, SameKeeps, MovesFacts
  <2> QED
    BY <2>1, <2>2, CountFrame DEF Holding
<1>5. ASSUME NEW c \in Command, KillCommand(c) PROVE CountKept'
  <2>1. run' = [run EXCEPT ![c] = Ended] /\ UNCHANGED taken /\ receipts' = receipts
    BY <1>5 DEF KillCommand
  <2>2. Keep /\ OnlyRun(c) /\ run'[c].at = "done"
    BY <2>1, SameKeeps, EndFacts
  <2> QED
    BY <2>1, <2>2, CountFrame DEF Holding
<1>6. ASSUME NEW c \in Command, Records(c) PROVE CountKept'
  <2> DEFINE n == run[c].accepted
             e == Envelope(c)
             sites == run[c].sites
  <2>1. PICK status \in CmdStatuses :
          /\ Recorded(c, status)
          /\ status = "applied" => run[c].at = "receipt" /\ run[c].apply
    BY <1>6 DEF Records, Succeeds, Fails, CmdStatuses
  <2>2. run' = [run EXCEPT ![c] = Ended] /\ UNCHANGED taken
    BY <2>1 DEF Recorded
  <2>3. Keep /\ OnlyRun(c) /\ run'[c].at = "done"
    BY <2>2, SameKeeps, EndFacts
  <2>4. n \in Nat /\ e \in Signed /\ sites \in Seq(Site) /\ run[c].next \in Nat
    BY ConfirmedFacts, EnvelopeSigned
  <2>5. status = "applied" => n \in 1 .. Cardinality(Takers(sites, e))
    <3> SUFFICES ASSUME status = "applied" PROVE n \in 1 .. Cardinality(Takers(sites, e))
      OBVIOUS
    <3>1. n >= 1 /\ n <= Cardinality(Confirmed(c))
      BY <2>1 DEF CountKept, Holding
    <3>2. /\ Cardinality(Confirmed(c)) \in Nat
          /\ Cardinality(Takers(sites, e)) \in Nat
          /\ Cardinality(Confirmed(c)) <= Cardinality(Takers(sites, e))
      BY <2>4, TakersFacts DEF Confirmed
    <3> HIDE DEF n, e, sites
    <3> QED
      BY <2>4, <3>1, <3>2
  <2> DEFINE new == [status |-> status, accepted |-> n, envelope |-> e, sites |-> sites]
  <2>6. receipts' = receipts \cup {new}
    BY <2>1 DEF Recorded
  <2>7. new.status = status /\ new.accepted = n /\ new.envelope = e /\ new.sites = sites
    OBVIOUS
  <2> HIDE DEF n, e, sites, new
  <2>8. ASSUME NEW r \in receipts' \ receipts, r.status = "applied"
        PROVE  r.accepted \in 1 .. Cardinality(Takers(r.sites, r.envelope)')
    <3>1. r = new
      BY <2>6, <2>8
    <3>2. r.status = status /\ r.accepted = n /\ r.envelope = e /\ r.sites = sites
      BY <2>7, <3>1
    <3>3. Takers(r.sites, r.envelope)' = Takers(r.sites, r.envelope)
      BY <2>2 DEF Takers
    <3> QED
      BY <2>5, <2>8, <3>2, <3>3
  <2> QED
    BY <2>3, <2>8, CountFrame DEF Holding
<1>7. ASSUME NEW c \in Command, Attempts(c) PROVE CountKept'
  <2>1. Keep
    BY <1>7, AttemptFacts DEF Attempts
  <2>2. PICK success \in BOOLEAN :
          Tried(c, success) /\ (success => Acknowledged(c))
    BY <1>7 DEF Attempts, Acknowledged, Declined, Unheard
  <2>3. /\ OnlyRun(c) /\ SameJob(c) /\ run[c].at = "post"
        /\ run'[c].loaded = run[c].loaded /\ run'[c].sites = run[c].sites
        /\ run'[c].next = run[c].next + 1
        /\ run'[c].accepted = run[c].accepted + IF success THEN 1 ELSE 0
        /\ run'[c].at \notin {"start", "write"}
        /\ run'[c].at = "receipt" => run'[c].accepted > 0
    BY <2>2, TriedFacts
  <2>4. /\ run[c].accepted \in Nat /\ run[c].next \in Nat
        /\ Cardinality(Confirmed(c)) \in Nat /\ Cardinality(Confirmed(c)') \in Nat
    BY ConfirmedFacts, ConfirmedNext
  <2>5. run[c].accepted <= Cardinality(Confirmed(c))
    BY <2>3 DEF CountKept, Holding
  <2>6. Cardinality(Confirmed(c)) <= Cardinality(Confirmed(c)')
    BY <2>1, <2>3, <2>4, ConfirmedGrow DEF SameJob
  <2>7. success => Cardinality(Confirmed(c)) + 1 <= Cardinality(Confirmed(c)')
    BY <2>2, OneMore
  <2>8. run'[c].accepted <= Cardinality(Confirmed(c)')
    BY <2>3, <2>4, <2>5, <2>6, <2>7
  <2>9. run'[c].at = "receipt" => run'[c].accepted >= 1
    BY <2>3, <2>4
  <2>10. receipts' = receipts
    BY <2>2 DEF Tried
  <2> QED
    BY <2>1, <2>3, <2>8, <2>9, <2>10, CountFrame
<1>8. CASE (\E m \in unanswered : ArrivesLate(m)) \/ UNCHANGED operatorVars
  <2>1. Keep
    BY <1>8, ArrivesFacts, SameKeeps DEF operatorVars
  <2>2. run' = run /\ receipts' = receipts
    BY <1>8 DEF ArrivesLate, operatorVars
  <2>3. \A d \in Command : Holding(d)' => run'[d].accepted <= Cardinality(Confirmed(d)')
    BY <2>1, <2>2, UntouchedRun
  <2>4. \A r \in receipts' :
          r.status = "applied" =>
              r.accepted \in 1 .. Cardinality(Takers(r.sites, r.envelope)')
    BY <2>1, <2>2, ReceiptsFrame
  <2> QED
    BY <2>2, <2>3, <2>4 DEF CountKept
<1> QED
  BY <1>1, <1>2, <1>3, <1>4, <1>5, <1>6, <1>7, <1>8, OperatorCases

\* A receipt that says "applied" counts no more than the posts of its run that
\* went to a controller that holds its envelope, and at least one, however posts
\* are lost, repeated or late, and for ever (_post_envelope, run_action).
THEOREM ReceiptsCount == OperatorSpec => []AppliedIsAccepted
<1>1. CountKept => AppliedIsAccepted
  BY DEF CountKept, AppliedIsAccepted, Takers
<1>2. OperatorInit => CountKept
  BY EndedFields DEF OperatorInit, CountKept, Holding, Ended
<1> QED
  BY <1>1, <1>2, TypedInit, TypeStep, CountStep, PTL DEF OperatorSpec

-----------------------------------------------------------------------------
(* PolicyTrust *)

\* Withdrawn keys are known and revoked in memory and in the file: being known
\* is what keeps a replacement from taking their key id.
KeysKept ==
    /\ trust \in KeyStore /\ trustFile \in KeyStore
    /\ withdrawn \subseteq trust.keys \cap trust.revoked
    /\ withdrawn \subseteq trustFile.keys \cap trustFile.revoked

\* What was installed, or is about to be, has passed the replay window, whose
\* file is never behind the memory; what is about to be is above it.
WindowKept ==
    /\ installed \in Seq(Offered)
    /\ verified \in Offered \cup {Empty}
    /\ seen \subseteq seenFile /\ seenFile \subseteq Offered
    /\ \A i \in DOMAIN installed : installed[i] \in seen
    /\ verified # Empty =>
        /\ verified \in seen
        /\ \A i \in DOMAIN installed :
             installed[i].key = verified.key => installed[i].seq < verified.seq
    /\ NeverInstalledBack

LEMMA StoreFields ==
    ASSUME NEW s \in KeyStore
    PROVE  s.keys \subseteq Key /\ s.revoked \subseteq Key
BY DEF KeyStore

-----------------------------------------------------------------------------
(* Keys *)

\* A change of the store that forgets no key of "kept" and trusts none again.
Keeps(store, kept) ==
    /\ store \in KeyStore
    /\ kept \subseteq store.keys \cap store.revoked

LEMMA AddKeeps ==
    ASSUME KeysKept, NEW k \in Key, CanAdd(k)
    PROVE  Keeps(Added(k), withdrawn)
<1>1. /\ Added(k).keys = trust.keys \cup {k} /\ Added(k).revoked = trust.revoked
      /\ Added(k) \in KeyStore
  BY StoreFields DEF Added, KeyStore, KeysKept
<1> QED
  BY <1>1 DEF Keeps, KeysKept

LEMMA RevokeKeeps ==
    ASSUME KeysKept, NEW k \in Key, CanRevoke(k)
    PROVE  Keeps(Revoked(k), withdrawn \cup {k})
<1>1. /\ Revoked(k).keys = trust.keys /\ Revoked(k).revoked = trust.revoked \cup {k}
      /\ Revoked(k) \in KeyStore
  BY StoreFields DEF Revoked, KeyStore, KeysKept
<1> QED
  BY <1>1 DEF Keeps, KeysKept, CanRevoke

LEMMA ReplaceKeeps ==
    ASSUME KeysKept, NEW old \in Key, NEW new \in Key, CanReplace(old, new)
    PROVE  Keeps(Replaced(old, new), withdrawn \cup {old})
<1>1. /\ Replaced(old, new).keys = trust.keys \cup {new}
      /\ Replaced(old, new).revoked = (trust.revoked \cup {old}) \ {new}
      /\ Replaced(old, new) \in KeyStore
  BY StoreFields DEF Replaced, KeyStore, KeysKept
<1>2. new \notin withdrawn /\ new # old /\ old \in trust.keys
  BY DEF KeysKept, CanReplace
<1> QED
  BY <1>1, <1>2 DEF Keeps, KeysKept

LEMMA ChangeKeeps ==
    ASSUME KeysKept, NEW store, NEW gone, Keeps(store, withdrawn \cup gone),
           Change(store, gone) \/ ChangeFails(store)
    PROVE  KeysKept'
BY DEF KeysKept, Keeps, Change, ChangeFails

LEMMA KeysStep == KeysKept /\ [TrustNext]_trustVars => KeysKept'
<1> SUFFICES ASSUME KeysKept, [TrustNext]_trustVars PROVE KeysKept'
  OBVIOUS
<1>1. ASSUME NEW k \in Key, Add(k) PROVE KeysKept'
  <2>1. Keeps(Added(k), withdrawn \cup {})
    BY <1>1, AddKeeps DEF Add
  <2> QED
    BY <1>1, <2>1, ChangeKeeps DEF Add
<1>2. ASSUME NEW k \in Key, Revoke(k) PROVE KeysKept'
  BY <1>2, RevokeKeeps, ChangeKeeps DEF Revoke
<1>3. ASSUME NEW old \in Key, NEW new \in Key, RecoverFromCompromise(old, new) PROVE KeysKept'
  BY <1>3, ReplaceKeeps, ChangeKeeps DEF RecoverFromCompromise
<1>4. ASSUME NEW e \in Offered, Accept(e) \/ AcceptFails(e) PROVE KeysKept'
  BY <1>4 DEF KeysKept, Accept, AcceptFails
<1>5. CASE Install \/ InstallFails
  BY <1>5 DEF KeysKept, Install, InstallFails
<1>6. CASE RestartReceiver
  BY <1>6 DEF KeysKept, RestartReceiver
<1>7. CASE UNCHANGED trustVars
  BY <1>7 DEF KeysKept, trustVars
<1> QED
  BY <1>1, <1>2, <1>3, <1>4, <1>5, <1>6, <1>7 DEF TrustNext

LEMMA KeysInit == TrustInit => KeysKept
<1> SUFFICES ASSUME TrustInit PROVE KeysKept
  OBVIOUS
<1>1. trust = [keys |-> FirstKeys, revoked |-> {}] /\ trustFile = trust /\ withdrawn = {}
  BY DEF TrustInit
<1>2. trust \in KeyStore
  BY <1>1, TrustAssumption DEF KeyStore
<1> QED
  BY <1>1, <1>2 DEF KeysKept

LEMMA KeysInvariant == TrustSpec => []KeysKept
BY KeysInit, KeysStep, PTL DEF TrustSpec

\* A key whose revocation was reported done is trusted neither by the running
\* receiver nor by one that restarts (PolicyKeyStore).
THEOREM RevocationHolds == TrustSpec => []WithdrawnForGood
<1>1. KeysKept => WithdrawnForGood
  BY DEF KeysKept, WithdrawnForGood, IsTrusted
<1> QED
  BY <1>1, KeysInvariant, PTL

-----------------------------------------------------------------------------
(* The replay window and the policy file *)

LEMMA OfferedFields ==
    ASSUME NEW e \in Offered
    PROVE  e.seq \in Nat /\ e # Empty
BY TrustAssumption

LEMMA AppendFacts ==
    ASSUME NEW s \in Seq(Offered), NEW e \in Offered
    PROVE  /\ Append(s, e) \in Seq(Offered)
           /\ DOMAIN s = 1 .. Len(s) /\ Len(s) \in Nat
           /\ DOMAIN Append(s, e) = 1 .. Len(s) + 1
           /\ \A i \in DOMAIN s : Append(s, e)[i] = s[i]
           /\ Append(s, e)[Len(s) + 1] = e
OBVIOUS

\* Accepting an envelope puts it above all that was installed.
LEMMA AcceptStep ==
    ASSUME WindowKept, NEW e \in Offered, Accept(e)
    PROVE  WindowKept'
<1>1. /\ seen' = seen \cup {e} /\ seenFile' = seen \cup {e} /\ verified' = e
      /\ installed' = installed /\ Fresh(e, seen)
  BY DEF Accept, Verifies
<1>2. \A i \in DOMAIN installed : installed[i].key = e.key => installed[i].seq < e.seq
  BY <1>1 DEF WindowKept, Fresh
<1> QED
  BY <1>1, <1>2, OfferedFields DEF WindowKept, NeverInstalledBack

\* What is installed is the envelope that passed, and it goes to the end.
LEMMA InstallStep ==
    ASSUME WindowKept, verified # Empty, verified' = Empty, UNCHANGED <<seen, seenFile>>,
           installed' = Append(installed, verified)
    PROVE  WindowKept'
<1>1. verified \in Offered /\ verified \in seen /\ installed \in Seq(Offered)
  BY DEF WindowKept
<1>2. \A i \in DOMAIN installed' : installed'[i] \in seen'
  BY <1>1, AppendFacts DEF WindowKept
<1>3. NeverInstalledBack'
  <2> SUFFICES ASSUME NEW i \in DOMAIN installed', NEW j \in DOMAIN installed', i < j,
                      installed'[i].key = installed'[j].key
               PROVE  installed'[i].seq < installed'[j].seq
    BY DEF NeverInstalledBack
  <2>1. i \in DOMAIN installed /\ installed'[i] = installed[i]
    BY <1>1, AppendFacts
  <2>2. CASE j \in DOMAIN installed
    BY <1>1, <2>1, <2>2, AppendFacts DEF WindowKept, NeverInstalledBack
  <2>3. CASE j = Len(installed) + 1
    BY <1>1, <2>1, <2>3, AppendFacts DEF WindowKept
  <2> QED
    BY <1>1, <2>2, <2>3, AppendFacts
<1> QED
  BY <1>1, <1>2, <1>3, AppendFacts DEF WindowKept

LEMMA WindowStep == WindowKept /\ [TrustNext]_trustVars => WindowKept'
<1> SUFFICES ASSUME WindowKept, [TrustNext]_trustVars PROVE WindowKept'
  OBVIOUS
<1>1. CASE UNCHANGED <<seen, seenFile, verified, installed>>
  BY <1>1 DEF WindowKept, NeverInstalledBack
<1>2. ASSUME NEW k \in Key, Add(k) \/ Revoke(k) PROVE WindowKept'
  BY <1>1, <1>2 DEF Add, Revoke, Change, ChangeFails
<1>3. ASSUME NEW old \in Key, NEW new \in Key, RecoverFromCompromise(old, new) PROVE WindowKept'
  BY <1>1, <1>3 DEF RecoverFromCompromise, Change, ChangeFails
<1>4. ASSUME NEW e \in Offered, Accept(e) PROVE WindowKept'
  BY <1>4, AcceptStep
<1>5. ASSUME NEW e \in Offered, AcceptFails(e) PROVE WindowKept'
  BY <1>5 DEF WindowKept, NeverInstalledBack, AcceptFails, Verifies
<1>6. CASE Install
  BY <1>6, InstallStep DEF Install
<1>7. CASE InstallFails
  <2>1. CASE UNCHANGED installed
    BY <1>7, <2>1 DEF WindowKept, NeverInstalledBack, InstallFails
  <2>2. CASE installed' = Append(installed, verified)
    BY <1>7, <2>2, InstallStep DEF InstallFails
  <2> QED
    BY <1>7, <2>1, <2>2 DEF InstallFails
<1>8. CASE RestartReceiver
  BY <1>8 DEF WindowKept, NeverInstalledBack, RestartReceiver
<1> QED
  BY <1>1, <1>2, <1>3, <1>4, <1>5, <1>6, <1>7, <1>8 DEF TrustNext, trustVars

\* The policy file never goes back to an envelope that one of the same key has
\* replaced, across restarts and half-failed writes (PolicyVerifier.verify,
\* PolicyStore.apply).
THEOREM InstalledForward == TrustSpec => []NeverInstalledBack
<1>1. TrustInit => WindowKept
  BY DEF TrustInit, WindowKept, NeverInstalledBack
<1>2. WindowKept => NeverInstalledBack
  BY DEF WindowKept
<1> QED
  BY <1>1, <1>2, WindowStep, PTL DEF TrustSpec

\* What was made durable, a revocation or a policy, is not undone.
THEOREM DurableHolds == TrustSpec => []NeverUndone
<1>1. WithdrawnForGood /\ NeverInstalledBack => NeverUndone
  BY DEF NeverUndone
<1> QED
  BY <1>1, RevocationHolds, InstalledForward, PTL

-----------------------------------------------------------------------------
(* The types of the trust store *)

\* A key that is revoked is known: a file of other keys would not load.
RevokedKnown ==
    /\ TrustTypeOK
    /\ trust.revoked \subseteq trust.keys

LEMMA StoresKnown ==
    ASSUME RevokedKnown, NEW k \in Key, NEW n \in Key
    PROVE  /\ Added(k) \in KeyStore /\ Added(k).revoked \subseteq Added(k).keys
           /\ CanRevoke(k) => Revoked(k) \in KeyStore /\ Revoked(k).revoked \subseteq Revoked(k).keys
           /\ CanReplace(k, n) =>
                Replaced(k, n) \in KeyStore /\ Replaced(k, n).revoked \subseteq Replaced(k, n).keys
<1>1. trust \in KeyStore /\ trust.keys \subseteq Key /\ trust.revoked \subseteq trust.keys
  BY DEF RevokedKnown, TrustTypeOK, KeyStore
<1>2. Added(k) = [keys |-> trust.keys \cup {k}, revoked |-> trust.revoked]
  BY <1>1 DEF Added, KeyStore
<1>3. Revoked(k) = [keys |-> trust.keys, revoked |-> trust.revoked \cup {k}]
  BY <1>1 DEF Revoked, KeyStore
<1> QED
  BY <1>1, <1>2, <1>3 DEF Replaced, CanRevoke, CanReplace, KeyStore

LEMMA RevokedStep == RevokedKnown /\ [TrustNext]_trustVars => RevokedKnown'
<1> SUFFICES ASSUME RevokedKnown, [TrustNext]_trustVars
             PROVE  RevokedKnown'
  OBVIOUS
<1>1. ASSUME NEW b \in {"changes", "faults"}, Uses(b)
      PROVE  trustTally' \in [DOMAIN TrustBound -> Nat]
  BY <1>1 DEF RevokedKnown, TrustTypeOK, Uses, TrustBound
<1>2. ASSUME NEW store \in KeyStore, store.revoked \subseteq store.keys, NEW gone \in SUBSET Key,
             Change(store, gone) \/ ChangeFails(store)
      PROVE  RevokedKnown'
  <2>1. trustTally' \in [DOMAIN TrustBound -> Nat]
    BY <1>1, <1>2 DEF Change, ChangeFails
  <2> QED
    BY <1>2, <2>1 DEF RevokedKnown, TrustTypeOK, Change, ChangeFails
<1>3. ASSUME NEW k \in Key, Add(k) \/ Revoke(k)
      PROVE  RevokedKnown'
  <2>1. CASE Add(k)
    BY <1>2, <2>1, StoresKnown DEF Add
  <2>2. CASE Revoke(k)
    BY <1>2, <2>2, StoresKnown DEF Revoke
  <2> QED
    BY <1>3, <2>1, <2>2
<1>4. ASSUME NEW old \in Key, NEW new \in Key, RecoverFromCompromise(old, new)
      PROVE  RevokedKnown'
  BY <1>2, <1>4, StoresKnown DEF RecoverFromCompromise
<1>5. ASSUME NEW e \in Offered, Accept(e) \/ AcceptFails(e)
      PROVE  RevokedKnown'
  BY <1>1, <1>5 DEF RevokedKnown, TrustTypeOK, Accept, AcceptFails
<1>6. CASE Install \/ InstallFails
  <2>1. verified \in Offered /\ installed \in Seq(Offered)
    BY <1>6 DEF RevokedKnown, TrustTypeOK, Install, InstallFails
  <2>2. installed' \in Seq(Offered)
    BY <1>6, <2>1 DEF Install, InstallFails
  <2>3. trustTally' \in [DOMAIN TrustBound -> Nat]
    BY <1>1, <1>6 DEF RevokedKnown, TrustTypeOK, Install, InstallFails
  <2> QED
    BY <1>6, <2>1, <2>2, <2>3 DEF RevokedKnown, TrustTypeOK, Install, InstallFails
<1>7. CASE RestartReceiver
  BY <1>1, <1>7 DEF RevokedKnown, TrustTypeOK, RestartReceiver
<1>8. CASE UNCHANGED trustVars
  BY <1>8 DEF RevokedKnown, TrustTypeOK, trustVars
<1> QED
  BY <1>3, <1>4, <1>5, <1>6, <1>7, <1>8 DEF TrustNext

\* The types of a receiver's trust, and that its key file always loads: no
\* change, failed write or restart leaves a revoked key that is not known
\* (PolicyKeyStore).
THEOREM TrustTypes == TrustSpec => []TrustTypeOK
<1>1. TrustInit => RevokedKnown
  <2> SUFFICES ASSUME TrustInit
               PROVE  RevokedKnown
    OBVIOUS
  <2>1. trust = [keys |-> FirstKeys, revoked |-> {}] /\ trustFile = trust
    BY DEF TrustInit
  <2>2. trust \in KeyStore /\ trust.revoked = {}
    BY <2>1, TrustAssumption DEF KeyStore
  <2>3. <<>> \in Seq(Offered)
    OBVIOUS
  <2> QED
    BY <2>1, <2>2, <2>3 DEF TrustInit, RevokedKnown, TrustTypeOK
<1>2. RevokedKnown => TrustTypeOK
  BY DEF RevokedKnown
<1> QED
  BY <1>1, <1>2, RevokedStep, PTL DEF TrustSpec
================================================================================
