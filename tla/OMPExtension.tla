---------------------------- MODULE OMPExtension ----------------------------
(***************************************************************************)
(* The OMP extension in enforcement mode: what one process remembers of    *)
(* its transcripts.  A request is admitted against the envelopes of its    *)
(* agent and of its provider; a response is charged, may send a scout to a *)
(* researcher, and parks the transcript when it repeats itself, which      *)
(* starts a recovery agent and then closes the transcript's budget.        *)
(*                                                                         *)
(* The response hook waits for events to be written, for the researcher    *)
(* and for the recovery agent (half an hour each at most), and meanwhile   *)
(* other hooks and the resume command run: each stretch of code between    *)
(* two awaits is an action.  A project's envelope behaves as an agent's.   *)
(***************************************************************************)
EXTENDS Naturals, FiniteSets

CONSTANTS
    Transcripts,
    Providers,
    Outputs,         \* normalized outputs
    Hooks,           \* bound: response hooks that run at the same time
    AgentOf,         \* the agent of each transcript
    Scouts,          \* transcripts of role scout-bounded
    Recoveries,      \* transcripts of recovery agents
    MaxManual,       \* bound: requests that are the user's own choice
    Policies,        \* runtime policies a sync can bring
    DefaultPolicy,
    MaxTokens,       \* bound: tokens of a response
    MaxResponses,    \* bound: responses in all
    MaxResumes,      \* bound: uses of the resume command
    MaxSyncs,        \* bound: policies applied
    Unlimited, None

Agents == {AgentOf[t] : t \in Transcripts}
Scope == Agents \cup Providers
Limit == Nat \cup {Unlimited}

Hook == [t : Transcripts, provider : Providers, out : Outputs,
         at : {"charged", "research", "observe", "recover"}]

ASSUME TranscriptAssumption ==
    /\ IsFiniteSet(Transcripts)
    /\ Scouts \subseteq Transcripts
    /\ Recoveries \subseteq Transcripts
    /\ AgentOf \in [Transcripts -> Agents]
    /\ Agents \cap Providers = {}
ASSUME PolicyAssumption ==
    /\ DefaultPolicy \in Policies
    /\ \A p \in Policies :
         /\ p.threshold \in Nat \ {0}
         /\ p.limits \in [Scope -> Limit]
ASSUME ExtensionBounds == {MaxTokens, MaxResponses, MaxManual, MaxResumes, MaxSyncs} \subseteq Nat
ASSUME NotValues == Unlimited \notin Nat /\ None \notin Providers \cup Outputs \cup Hook

VARIABLES
    limits,       \* BudgetManager.limits
    usage,        \* BudgetManager.usage
    open,         \* the provider of the request that opened the budget
    closed,       \* transcripts whose budget is closed
    threshold,    \* ContainmentDetector.threshold
    ring,         \* the latest equal outputs of a transcript
    parked,       \* parked transcripts
    escalated,    \* EscalationController.escalatedScouts
    handedOff,    \* RecoveryController.handedOff
    asked,        \* the provider a transcript waits for
    hook,         \* what each running response hook is about and waits for
    researchers,  \* history: researchers started for a transcript
    recoveries,   \* history: recovery agents started for it
    served,       \* history: tokens a scope really used
    counts        \* responses, manual requests, resumes and syncs so far

budgets == <<limits, usage, open, closed>>
containment == <<threshold, ring, parked>>
spawned == <<escalated, handedOff, researchers, recoveries>>
vars == <<limits, usage, open, closed, threshold, ring, parked, escalated,
          handedOff, asked, hook, researchers, recoveries, served, counts>>

Bounds == [responses |-> MaxResponses, manual |-> MaxManual,
           resumes |-> MaxResumes, syncs |-> MaxSyncs]

TypeOK ==
    /\ limits \in [Scope -> Limit]
    /\ usage \in [Scope -> Nat]
    /\ open \in [Transcripts -> Providers \cup {None}]
    /\ closed \subseteq Transcripts
    /\ threshold \in Nat \ {0}
    /\ ring \in [Transcripts -> [out : Outputs \cup {None}, n : 0 .. threshold]]
    /\ parked \subseteq Transcripts
    /\ escalated \subseteq Scouts
    /\ handedOff \subseteq Transcripts \ Recoveries
    /\ asked \in [Transcripts -> Providers \cup {None}]
    /\ hook \in [Hooks -> Hook \cup {None}]
    /\ researchers \in [Transcripts -> Nat]
    /\ recoveries \in [Transcripts -> Nat]
    /\ served \in [Scope -> Nat]
    /\ counts \in [DOMAIN Bounds -> Nat]

NoRing == [out |-> None, n |-> 0]

Init ==
    /\ limits = DefaultPolicy.limits
    /\ usage = [s \in Scope |-> 0]
    /\ open = [t \in Transcripts |-> None]
    /\ closed = {}
    /\ threshold = DefaultPolicy.threshold
    /\ ring = [t \in Transcripts |-> NoRing]
    /\ parked = {}
    /\ escalated = {}
    /\ handedOff = {}
    /\ asked = [t \in Transcripts |-> None]
    /\ hook = [h \in Hooks |-> None]
    /\ researchers = [t \in Transcripts |-> 0]
    /\ recoveries = [t \in Transcripts |-> 0]
    /\ served = [s \in Scope |-> 0]
    /\ counts = [b \in DOMAIN Bounds |-> 0]

Count(b) ==
    /\ counts[b] < Bounds[b]
    /\ counts' = [counts EXCEPT ![b] = @ + 1]

-----------------------------------------------------------------------------
(* beforeRequest *)

Exceeds(scopes, n) == \E s \in scopes : limits[s] # Unlimited /\ usage[s] + n > limits[s]

\* Mutant: a transcript with an open budget is not measured again.
AdmitsOpen(t, p, manual, n) ==
    /\ t \notin parked \cup closed
    /\ manual \/ open[t] # None \/ ~ Exceeds({AgentOf[t], p}, n)

\* The transcript is neither parked nor closed, and an automatic request with
\* its estimate fits the envelopes; a breach is an estimate of nothing that
\* does not fit.
Admits(t, p, manual, n) ==
    /\ t \notin parked \cup closed
    /\ manual \/ ~ Exceeds({AgentOf[t], p}, n)

\* A refused request changes nothing.  The check and the opening of the budget
\* follow the last await.
Request(t, p, manual, n) ==
    /\ asked[t] = None
    /\ Admits(t, p, manual, n)
    /\ IF manual THEN Count("manual") ELSE UNCHANGED counts
    /\ asked' = [asked EXCEPT ![t] = p]
    /\ open' = [open EXCEPT ![t] = IF @ = None THEN p ELSE @]
    /\ UNCHANGED <<limits, usage, closed, containment, spawned, hook, served>>

\* The request fails, is aborted, or is answered without text.
Dropped(t) ==
    /\ asked[t] # None
    /\ asked' = [asked EXCEPT ![t] = None]
    /\ UNCHANGED <<budgets, containment, spawned, hook, served, counts>>

-----------------------------------------------------------------------------
(* afterResponse *)

Charge(of, scopes, n) == [s \in Scope |-> IF s \in scopes THEN of[s] + n ELSE of[s]]

\* The tokens go to the request that opened the budget, if it is still open.
Consume(t, n) ==
    IF open[t] = None \/ t \in closed
    THEN UNCHANGED usage
    ELSE usage' = Charge(usage, {AgentOf[t], open[t]}, n)

Respond(t, h, out, n) ==
    /\ asked[t] # None
    /\ hook[h] = None
    /\ Count("responses")
    /\ Consume(t, n)
    /\ served' = Charge(served, {AgentOf[t], asked[t]}, n)
    /\ hook' = [hook EXCEPT ![h] =
                    [t |-> t, provider |-> asked[t], out |-> out, at |-> "charged"]]
    /\ asked' = [asked EXCEPT ![t] = None]
    /\ UNCHANGED <<limits, open, closed, containment, spawned>>

At(h, where) == hook[h] # None /\ hook[h].at = where

Goes(h, where) == hook' = [hook EXCEPT ![h].at = where]

Ends(h) == hook' = [hook EXCEPT ![h] = None]

\* A scout over one of its envelopes.
Breaches(h) ==
    /\ hook[h].t \in Scouts
    /\ Exceeds({AgentOf[hook[h].t], hook[h].provider}, 0)

\* The researcher's own agent has used nothing here; its provider may be over.
CanStartResearcher(h) == ~ Exceeds({hook[h].provider}, 0)

\* Mutant: the scout is not remembered while its researcher starts.
EscalateUnmarked(h) ==
    /\ At(h, "charged")
    /\ Breaches(h)
    /\ hook[h].t \notin escalated
    /\ CanStartResearcher(h)
    /\ researchers' = [researchers EXCEPT ![hook[h].t] = @ + 1]
    /\ Goes(h, "research")
    /\ UNCHANGED <<budgets, containment, escalated, handedOff, recoveries, asked,
                   served, counts>>

\* The scout is escalated for the first time: a researcher may start.
Escalate(h) ==
    /\ At(h, "charged")
    /\ Breaches(h)
    /\ hook[h].t \notin escalated
    /\ escalated' = escalated \cup {hook[h].t}
    /\ IF CanStartResearcher(h)
       THEN /\ researchers' = [researchers EXCEPT ![hook[h].t] = @ + 1]
            /\ Goes(h, "research")
       ELSE UNCHANGED researchers /\ Goes(h, "observe")
    /\ UNCHANGED <<budgets, containment, handedOff, recoveries, asked, served, counts>>

EscalateAgain(h) ==
    /\ At(h, "charged")
    /\ Breaches(h)
    /\ hook[h].t \in escalated
    /\ Goes(h, "observe")
    /\ UNCHANGED <<budgets, containment, spawned, asked, served, counts>>

\* The researcher's process has ended, well or badly, or timed out.
Researched(h) ==
    /\ At(h, "research")
    /\ Goes(h, "observe")
    /\ UNCHANGED <<budgets, containment, spawned, asked, served, counts>>

\* The outputs in the ring with this one, when kept are still in the window.
Repeats(h, kept) ==
    IF kept > 0 /\ ring[hook[h].t].out = hook[h].out THEN kept + 1 ELSE 1

Observing(h) == At(h, "observe") \/ (At(h, "charged") /\ ~ Breaches(h))

\* The output does not park its transcript, or finds it parked.
Observe(h) ==
    /\ Observing(h)
    /\ LET t == hook[h].t IN
       IF t \in parked
       THEN UNCHANGED ring
       ELSE \E kept \in 0 .. ring[t].n :
              /\ Repeats(h, kept) < threshold
              /\ ring' = [ring EXCEPT ![t] = [out |-> hook[h].out, n |-> Repeats(h, kept)]]
    /\ Ends(h)
    /\ UNCHANGED <<budgets, threshold, parked, spawned, asked, served, counts>>

\* Mutant: nothing follows a parking that starts no recovery agent.
ParkFirst(h) ==
    /\ Observing(h)
    /\ hook[h].t \notin parked
    /\ \E kept \in 0 .. ring[hook[h].t].n : Repeats(h, kept) >= threshold
    /\ parked' = parked \cup {hook[h].t}
    /\ IF hook[h].t \notin Recoveries \cup handedOff
       THEN handedOff' = handedOff \cup {hook[h].t} /\ Goes(h, "recover")
       ELSE UNCHANGED handedOff /\ Ends(h)
    /\ UNCHANGED <<budgets, threshold, ring, escalated, researchers, recoveries,
                   asked, served, counts>>

\* The transcript is parked, and its first parking starts a recovery agent
\* unless it is one itself.
Park(h) ==
    /\ Observing(h)
    /\ LET t == hook[h].t
           first == t \notin Recoveries \cup handedOff
       IN /\ t \notin parked
          /\ \E kept \in 0 .. ring[t].n : Repeats(h, kept) >= threshold
          /\ ring' = [ring EXCEPT ![t] = [out |-> hook[h].out, n |-> threshold]]
          /\ parked' = parked \cup {t}
          /\ IF first
             THEN /\ handedOff' = handedOff \cup {t}
                  /\ recoveries' = [recoveries EXCEPT ![t] = @ + 1]
             ELSE UNCHANGED <<handedOff, recoveries>>
    /\ Goes(h, "recover")
    /\ UNCHANGED <<budgets, threshold, escalated, researchers, asked, served, counts>>

\* The recovery agent's process has ended: the budget is closed, if there is one.
Recovered(h) ==
    /\ At(h, "recover")
    /\ closed' = IF open[hook[h].t] # None THEN closed \cup {hook[h].t} ELSE closed
    /\ Ends(h)
    /\ UNCHANGED <<limits, usage, open, containment, spawned, asked, served, counts>>

-----------------------------------------------------------------------------
(* The resume command, and a policy from the controllers *)

Resume(t) ==
    /\ Count("resumes")
    /\ parked' = parked \ {t}
    /\ ring' = [ring EXCEPT ![t] = NoRing]
    /\ closed' = closed \ {t}
    /\ open' = [open EXCEPT ![t] = None]
    /\ UNCHANGED <<limits, usage, threshold, spawned, asked, hook, served>>

\* Mutant: the rings are kept under the new threshold.
SyncKeepsRings(p) ==
    /\ Count("syncs")
    /\ \/ limits' = p.limits /\ UNCHANGED threshold
       \/ threshold' = p.threshold /\ limits' \in {limits, p.limits}
    /\ UNCHANGED <<usage, open, closed, ring, parked, spawned, asked, hook, served>>

\* A policy may carry limits, a containment threshold, or both.
Sync(p) ==
    /\ Count("syncs")
    /\ \/ limits' = p.limits /\ UNCHANGED <<threshold, ring>>
       \/ /\ threshold' = p.threshold
          /\ ring' = [t \in Transcripts |-> NoRing]
          /\ limits' \in {limits, p.limits}
    /\ UNCHANGED <<usage, open, closed, parked, spawned, asked, hook, served>>

-----------------------------------------------------------------------------
HookSteps(h) ==
    \/ Escalate(h) \/ EscalateAgain(h) \/ Researched(h)
    \/ Observe(h) \/ Park(h) \/ Recovered(h)

Next ==
    \/ \E t \in Transcripts :
         \/ \E p \in Providers, manual \in BOOLEAN, n \in 0 .. MaxTokens :
              Request(t, p, manual, n)
         \/ \E h \in Hooks, out \in Outputs, n \in 0 .. MaxTokens : Respond(t, h, out, n)
         \/ Dropped(t)
         \/ Resume(t)
    \/ \E h \in Hooks : HookSteps(h)
    \/ \E p \in Policies : Sync(p)

Spec == Init /\ [][Next]_vars

-----------------------------------------------------------------------------
(* What containment and budgets promise *)

\* However hooks of one transcript overlap, it is given one researcher and one
\* recovery agent at most, and a recovery agent none.
StartedOnce ==
    \A t \in Transcripts :
        /\ researchers[t] <= 1
        /\ recoveries[t] <= (IF t \in Recoveries THEN 0 ELSE 1)

\* A parked transcript's budget is closed, or the hook that parked it, or
\* another, is still to close it.
ParkCloses ==
    \A t \in parked :
        open[t] # None => t \in closed \/ \E h \in Hooks : At(h, "recover") /\ hook[h].t = t

\* Requests are admitted before their tokens are known, so an envelope can be
\* overrun, but only by what was on its way when it was breached: one response
\* of each transcript of the agent; a manual request is never held back.
AgentOverrun ==
    \A a \in Agents :
        limits[a] # Unlimited /\ counts.syncs = 0 /\ counts.manual = 0 =>
            usage[a] <= limits[a] + MaxTokens * Cardinality({t \in Transcripts : AgentOf[t] = a})

\* While the user chooses nothing, no request goes to a provider, or is made by
\* an agent, whose responses have overrun the limit.
BreachBlocks ==
    [][\A t \in Transcripts :
         asked[t] = None /\ asked'[t] # None /\ counts'.manual = 0 =>
            \A s \in {AgentOf[t], asked'[t]} :
                limits[s] # Unlimited => served[s] <= limits[s]]_vars

\* A transcript is closed only while it is parked: resume undoes both.
ClosedIsParked == closed \subseteq parked
=============================================================================
