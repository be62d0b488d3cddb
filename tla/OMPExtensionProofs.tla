------------------------ MODULE OMPExtensionProofs ------------------------
(***************************************************************************)
(* Theorems about OMPExtension, for any transcripts, policies and number   *)
(* of hooks running at the same time.                                      *)
(***************************************************************************)
EXTENDS OMPExtension, FiniteSetTheorems, TLAPS

\* A charge keeps a table of totals a table of totals.
LEMMA ChargeType ==
    ASSUME NEW of \in [Scope -> Nat], NEW scopes, NEW n \in Nat
    PROVE  Charge(of, scopes, n) \in [Scope -> Nat]
BY DEF Charge

\* What is counted, and counting keeps the counts numbers.
LEMMA CountNames == {"responses", "manual", "resumes", "syncs"} \subseteq DOMAIN Bounds
BY DEF Bounds

LEMMA CountType ==
    ASSUME NEW b, b \in DOMAIN Bounds, counts \in [DOMAIN Bounds -> Nat], Count(b)
    PROVE  counts' \in [DOMAIN Bounds -> Nat]
BY DEF Count

\* Where a running hook is about one transcript, moving it on keeps its type
\* and what it is about.
LEMMA GoesType ==
    ASSUME NEW h \in Hooks, NEW from, NEW to \in {"charged", "research", "observe", "recover"},
           hook \in [Hooks -> Hook \cup {None}], At(h, from), Goes(h, to)
    PROVE  /\ hook' \in [Hooks -> Hook \cup {None}]
           /\ hook'[h] = [hook[h] EXCEPT !.at = to]
           /\ \A g \in Hooks : g # h => hook'[g] = hook[g]
<1>1. hook[h] \in Hook
  BY DEF At
<1>2. [hook[h] EXCEPT !.at = to] \in Hook
  BY <1>1 DEF Hook
<1>3. hook' = [hook EXCEPT ![h] = [hook[h] EXCEPT !.at = to]]
  BY DEF Goes
<1> QED
  BY <1>2, <1>3

LEMMA HookFields ==
    ASSUME NEW g \in Hook
    PROVE  g.t \in Transcripts /\ g.out \in Outputs /\ g.provider \in Providers
BY DEF Hook

Ring == [out : Outputs \cup {None}, n : 0 .. threshold]

\* The tables and hooks keep their types; a ring is never longer than the
\* threshold, which a policy may lower.
LEMMA TypeStep == TypeOK /\ [Next]_vars => TypeOK'
<1> SUFFICES ASSUME TypeOK, [Next]_vars PROVE TypeOK'
  OBVIOUS
<1> USE DEF TypeOK
<1>0. MaxTokens \in Nat
  BY ExtensionBounds
<1>r. threshold' = threshold => UNCHANGED Ring
  BY DEF Ring
<1>1. ASSUME NEW t \in Transcripts, NEW p \in Providers, NEW manual \in BOOLEAN,
             NEW n \in 0 .. MaxTokens, Request(t, p, manual, n)
      PROVE  TypeOK'
  <2>1. counts' \in [DOMAIN Bounds -> Nat]
    BY <1>1, CountNames, CountType DEF Request
  <2>2. asked' \in [Transcripts -> Providers \cup {None}]
    BY <1>1 DEF Request
  <2>3. open' \in [Transcripts -> Providers \cup {None}]
    BY <1>1 DEF Request
  <2> QED
    BY <1>1, <2>1, <2>2, <2>3 DEF Request, containment, spawned
<1>2. ASSUME NEW t \in Transcripts, NEW h \in Hooks, NEW out \in Outputs,
             NEW n \in 0 .. MaxTokens, Respond(t, h, out, n)
      PROVE  TypeOK'
  <2>1. n \in Nat
    BY <1>0
  <2>2. usage' \in [Scope -> Nat]
    BY <1>2, <2>1, ChargeType DEF Respond, Consume
  <2>3. served' \in [Scope -> Nat]
    BY <1>2, <2>1, ChargeType DEF Respond
  <2>4. [t |-> t, provider |-> asked[t], out |-> out, at |-> "charged"] \in Hook
    BY <1>2 DEF Respond, Hook
  <2>5. hook' \in [Hooks -> Hook \cup {None}]
    BY <1>2, <2>4 DEF Respond
  <2>6. counts' \in [DOMAIN Bounds -> Nat]
    BY <1>2, CountNames, CountType DEF Respond
  <2>7. asked' \in [Transcripts -> Providers \cup {None}]
    BY <1>2 DEF Respond
  <2> QED
    BY <1>2, <2>2, <2>3, <2>5, <2>6, <2>7 DEF Respond, containment, spawned
<1>3. ASSUME NEW t \in Transcripts, Dropped(t) PROVE TypeOK'
  BY <1>3 DEF Dropped, budgets, containment, spawned
<1>4. ASSUME NEW t \in Transcripts, Resume(t) PROVE TypeOK'
  <2>1. counts' \in [DOMAIN Bounds -> Nat]
    BY <1>4, CountNames, CountType DEF Resume
  <2>2. NoRing \in Ring
    BY DEF NoRing, Ring
  <2>3. ring' \in [Transcripts -> Ring']
    BY <1>4, <1>r, <2>2 DEF Resume, Ring
  <2>4. open' \in [Transcripts -> Providers \cup {None}]
    BY <1>4 DEF Resume
  <2> QED
    BY <1>4, <2>1, <2>3, <2>4 DEF Resume, spawned, Ring
<1>5. ASSUME NEW h \in Hooks, HookSteps(h) PROVE TypeOK'
  <2>1. ASSUME NEW from, At(h, from)
        PROVE  hook[h] \in Hook /\ hook[h].t \in Transcripts /\ hook[h].out \in Outputs
    BY <2>1, HookFields DEF At
  <2>2. Ends(h) => hook' \in [Hooks -> Hook \cup {None}]
    BY DEF Ends
  <2>3. CASE Escalate(h)
    <3>1. hook' \in [Hooks -> Hook \cup {None}]
      BY <2>3, GoesType DEF Escalate
    <3>2. researchers' \in [Transcripts -> Nat]
      BY <2>3, <2>1 DEF Escalate
    <3>3. escalated' \subseteq Scouts
      BY <2>3 DEF Escalate, Breaches
    <3> QED
      BY <2>3, <3>1, <3>2, <3>3 DEF Escalate, budgets, containment
  <2>4. CASE EscalateAgain(h)
    <3>1. hook' \in [Hooks -> Hook \cup {None}]
      BY <2>4, GoesType DEF EscalateAgain
    <3> QED
      BY <2>4, <3>1 DEF EscalateAgain, budgets, containment, spawned
  <2>5. CASE Researched(h)
    <3>1. hook' \in [Hooks -> Hook \cup {None}]
      BY <2>5, GoesType DEF Researched
    <3> QED
      BY <2>5, <3>1 DEF Researched, budgets, containment, spawned
  <2>6. CASE Observe(h)
    <3>1. hook[h].t \in Transcripts /\ hook[h].out \in Outputs
      BY <2>6, <2>1 DEF Observe, Observing
    <3>2. ring' \in [Transcripts -> Ring]
      <4>1. CASE hook[h].t \in parked
        BY <4>1, <2>6 DEF Observe, Ring
      <4>2. CASE hook[h].t \notin parked
        <5>1. PICK kept \in 0 .. ring[hook[h].t].n :
                /\ Repeats(h, kept) < threshold
                /\ ring' = [ring EXCEPT ![hook[h].t] =
                              [out |-> hook[h].out, n |-> Repeats(h, kept)]]
          BY <4>2, <2>6 DEF Observe
        <5>2. ring[hook[h].t].n \in Nat
          BY <3>1
        <5>3. Repeats(h, kept) \in Nat
          BY <5>2 DEF Repeats
        <5>4. [out |-> hook[h].out, n |-> Repeats(h, kept)] \in Ring
          BY <3>1, <5>1, <5>3 DEF Ring
        <5> QED
          BY <5>1, <5>4 DEF Ring
      <4> QED BY <4>1, <4>2
    <3> QED
      BY <2>6, <2>2, <3>2 DEF Observe, budgets, spawned, Ring
  <2>7. CASE Park(h)
    <3>1. hook[h].t \in Transcripts /\ hook[h].out \in Outputs
      BY <2>7, <2>1 DEF Park, Observing
    <3>2. hook' \in [Hooks -> Hook \cup {None}]
      BY <2>7, GoesType DEF Park, Observing
    <3>3. [out |-> hook[h].out, n |-> threshold] \in Ring
      BY <3>1 DEF Ring
    <3>4. ring' \in [Transcripts -> Ring]
      BY <2>7, <3>3 DEF Park, Ring
    <3>5. recoveries' \in [Transcripts -> Nat] /\ handedOff' \subseteq Transcripts \ Recoveries
      BY <2>7, <3>1 DEF Park
    <3>6. parked' \subseteq Transcripts
      BY <2>7, <3>1 DEF Park
    <3> QED
      BY <2>7, <3>2, <3>4, <3>5, <3>6 DEF Park, budgets, Ring
  <2>8. CASE Recovered(h)
    <3>1. closed' \subseteq Transcripts
      BY <2>8, <2>1 DEF Recovered
    <3> QED
      BY <2>8, <2>2, <3>1 DEF Recovered, containment, spawned
  <2> QED
    BY <1>5, <2>3, <2>4, <2>5, <2>6, <2>7, <2>8 DEF HookSteps
<1>6. ASSUME NEW p \in Policies, Sync(p) PROVE TypeOK'
  <2>1. counts' \in [DOMAIN Bounds -> Nat]
    BY <1>6, CountNames, CountType DEF Sync
  <2>2. limits' \in [Scope -> Limit] /\ threshold' \in Nat \ {0}
    BY <1>6, PolicyAssumption DEF Sync
  <2>3. NoRing \in Ring'
    BY <2>2 DEF NoRing, Ring
  <2>4. ring' \in [Transcripts -> Ring']
    BY <1>6, <1>r, <2>3 DEF Sync, Ring
  <2> QED
    BY <1>6, <2>1, <2>2, <2>4 DEF Sync, spawned, Ring
<1>7. CASE UNCHANGED vars
  BY <1>7 DEF vars
<1> QED
  BY <1>1, <1>2, <1>3, <1>4, <1>5, <1>6, <1>7 DEF Next

\* Every table, hook and ring keeps its type in every behaviour.
THEOREM TypeCorrect == Spec => []TypeOK
<1>1. Init => TypeOK
  <2> SUFFICES ASSUME Init PROVE TypeOK
    OBVIOUS
  <2>1. limits \in [Scope -> Limit] /\ threshold \in Nat \ {0}
    BY PolicyAssumption DEF Init
  <2>2. ring \in [Transcripts -> Ring]
    BY <2>1 DEF Init, NoRing, Ring
  <2> QED
    BY <2>1, <2>2 DEF Init, TypeOK, Ring
<1> QED
  BY <1>1, TypeStep, PTL DEF Spec

-----------------------------------------------------------------------------
(* One researcher, one recovery agent *)

\* A transcript is marked in the step that starts its agent, before anything
\* else can run, so what was started is bounded by the marks.
MarkedFirst ==
    \A t \in Transcripts :
        /\ researchers[t] <= (IF t \in escalated THEN 1 ELSE 0)
        /\ recoveries[t] <= (IF t \in handedOff THEN 1 ELSE 0)

LEMMA MarkStep == TypeOK /\ MarkedFirst /\ [Next]_vars => MarkedFirst'
<1> SUFFICES ASSUME TypeOK, MarkedFirst, [Next]_vars PROVE MarkedFirst'
  OBVIOUS
<1>1. CASE UNCHANGED spawned
  BY <1>1 DEF spawned, MarkedFirst
<1>2. ASSUME NEW h \in Hooks, Escalate(h) PROVE MarkedFirst'
  <2>1. hook[h].t \notin escalated /\ escalated' = escalated \cup {hook[h].t}
    BY <1>2 DEF Escalate
  <2>2. \/ researchers' = researchers
        \/ researchers' = [researchers EXCEPT ![hook[h].t] = @ + 1]
    BY <1>2 DEF Escalate
  <2>3. UNCHANGED <<handedOff, recoveries>>
    BY <1>2 DEF Escalate
  <2> QED
    BY <2>1, <2>2, <2>3 DEF TypeOK, MarkedFirst
<1>3. ASSUME NEW h \in Hooks, Park(h) PROVE MarkedFirst'
  <2>1. UNCHANGED <<escalated, researchers>>
    BY <1>3 DEF Park
  <2>2. \/ UNCHANGED <<handedOff, recoveries>>
        \/ /\ hook[h].t \notin handedOff
           /\ handedOff' = handedOff \cup {hook[h].t}
           /\ recoveries' = [recoveries EXCEPT ![hook[h].t] = @ + 1]
    BY <1>3 DEF Park
  <2> QED
    BY <2>1, <2>2 DEF TypeOK, MarkedFirst
<1> QED
  BY <1>1, <1>2, <1>3
  DEF Next, HookSteps, Request, Respond, Dropped, Resume, Sync, EscalateAgain,
      Researched, Observe, Recovered, spawned, vars

\* A transcript is given at most one researcher and one recovery agent, and a
\* recovery agent none, however many hooks run at once.
THEOREM StartedOnceHolds == Spec => []StartedOnce
<1>1. Init => MarkedFirst
  BY DEF Init, MarkedFirst
<1>2. TypeOK /\ MarkedFirst => StartedOnce
  BY DEF TypeOK, MarkedFirst, StartedOnce
<1>3. Spec => []MarkedFirst
  BY <1>1, MarkStep, TypeCorrect, PTL DEF Spec
<1> QED
  BY <1>2, <1>3, TypeCorrect, PTL

-----------------------------------------------------------------------------
(* Parking closes the budget *)

\* The hook that parks a transcript waits at the recovery, and only its end
\* leaves that wait: it closes the budget.
LEMMA ParkStep == TypeOK /\ ParkCloses /\ [Next]_vars => ParkCloses'
<1> SUFFICES ASSUME TypeOK, ParkCloses, [Next]_vars,
                    NEW t \in Transcripts, t \in parked', open'[t] # None
             PROVE  t \in closed' \/ \E h \in Hooks : At(h, "recover")' /\ hook'[h].t = t
  BY TypeStep DEF ParkCloses, TypeOK
<1> DEFINE Kept == /\ t \in parked
                   /\ open[t] # None
                   /\ t \in closed => t \in closed'
<1>k. ASSUME Kept,
             \A h \in Hooks : At(h, "recover") => hook'[h] = hook[h]
      PROVE  t \in closed' \/ \E h \in Hooks : At(h, "recover")' /\ hook'[h].t = t
  BY <1>k DEF ParkCloses, At
<1>1. ASSUME NEW u \in Transcripts, NEW p \in Providers, NEW manual \in BOOLEAN,
             NEW n \in 0 .. MaxTokens, Request(u, p, manual, n)
      PROVE  Kept /\ hook' = hook
  BY <1>1 DEF Request, Admits, containment, TypeOK
<1>2. ASSUME NEW u \in Transcripts, NEW h \in Hooks, NEW out \in Outputs,
             NEW n \in 0 .. MaxTokens, Respond(u, h, out, n)
      PROVE  Kept /\ \A g \in Hooks : At(g, "recover") => hook'[g] = hook[g]
  BY <1>2 DEF Respond, containment, At, TypeOK
<1>3. ASSUME NEW u \in Transcripts, Dropped(u) PROVE Kept /\ hook' = hook
  BY <1>3 DEF Dropped, budgets, containment
<1>4. ASSUME NEW u \in Transcripts, Resume(u)
      PROVE  Kept /\ hook' = hook
  BY <1>4 DEF Resume, TypeOK
<1>5. ASSUME NEW p \in Policies, Sync(p) PROVE Kept /\ hook' = hook
  BY <1>5 DEF Sync
<1>6. ASSUME NEW h \in Hooks, NEW from, NEW to \in {"research", "observe"},
             from # "recover", At(h, from), Goes(h, to)
      PROVE  \A g \in Hooks : At(g, "recover") => hook'[g] = hook[g]
  BY <1>6, GoesType DEF At, TypeOK
<1>7. ASSUME NEW h \in Hooks, Escalate(h) \/ EscalateAgain(h) \/ Researched(h)
      PROVE  Kept /\ \A g \in Hooks : At(g, "recover") => hook'[g] = hook[g]
  BY <1>7, <1>6 DEF Escalate, EscalateAgain, Researched, budgets, containment
<1>8. ASSUME NEW h \in Hooks, Observe(h)
      PROVE  Kept /\ \A g \in Hooks : At(g, "recover") => hook'[g] = hook[g]
  BY <1>8 DEF Observe, Observing, Ends, At, budgets, TypeOK
<1>9. ASSUME NEW h \in Hooks, Park(h)
      PROVE  t \in closed' \/ \E g \in Hooks : At(g, "recover")' /\ hook'[g].t = t
  <2>1. \/ At(h, "charged") \/ At(h, "observe")
    BY <1>9 DEF Park, Observing
  <2>2. /\ hook'[h] = [hook[h] EXCEPT !.at = "recover"]
        /\ hook[h] \in Hook
        /\ \A g \in Hooks : g # h => hook'[g] = hook[g]
    BY <1>9, <2>1, GoesType DEF Park, At, TypeOK
  <2>3. At(h, "recover")' /\ hook'[h].t = hook[h].t
    BY <2>2, NotValues DEF At, Hook
  <2>4. CASE t = hook[h].t
    BY <2>3, <2>4
  <2>5. CASE t # hook[h].t
    <3>1. Kept
      BY <1>9, <2>5 DEF Park, budgets
    <3>2. \A g \in Hooks : At(g, "recover") => hook'[g] = hook[g]
      BY <2>1, <2>2 DEF At
    <3> QED
      BY <1>k, <3>1, <3>2
  <2> QED
    BY <2>4, <2>5
<1>10. ASSUME NEW h \in Hooks, Recovered(h)
       PROVE  t \in closed' \/ \E g \in Hooks : At(g, "recover")' /\ hook'[g].t = t
  <2>1. t \in parked /\ open[t] # None /\ closed \subseteq closed'
    BY <1>10 DEF Recovered, containment
  <2>2. CASE t = hook[h].t
    BY <1>10, <2>1, <2>2 DEF Recovered
  <2>3. CASE t # hook[h].t
    <3>1. t \in closed \/ \E g \in Hooks : At(g, "recover") /\ hook[g].t = t
      BY <2>1 DEF ParkCloses
    <3>2. ASSUME NEW g \in Hooks, At(g, "recover"), hook[g].t = t
          PROVE  At(g, "recover")' /\ hook'[g].t = t
      BY <1>10, <2>3, <3>2 DEF Recovered, Ends, At, TypeOK
    <3> QED
      BY <2>1, <3>1, <3>2
  <2> QED
    BY <2>2, <2>3
<1>11. CASE UNCHANGED vars
  BY <1>11, <1>k DEF vars
<1> QED
  BY <1>1, <1>2, <1>3, <1>4, <1>5, <1>7, <1>8, <1>9, <1>10, <1>11, <1>k
  DEF Next, HookSteps

\* The budget of a parked transcript is closed, or a hook is still to close it.
THEOREM ParkClosesHolds == Spec => []ParkCloses
<1>1. Init => ParkCloses
  BY DEF Init, ParkCloses
<1> QED
  BY <1>1, ParkStep, TypeCorrect, PTL DEF Spec

-----------------------------------------------------------------------------
(* What an envelope can be overrun by *)

OfAgent(a) == {t \in Transcripts : AgentOf[t] = a}

\* The agent's transcripts that wait for a response.
Waiting(a) == {t \in OfAgent(a) : asked[t] # None}

\* Every response on its way may still cost MaxTokens.  When nothing was on its
\* way the last admitted request fitted the limit, whence one of each.
WithinReach ==
    \A a \in Agents :
        limits[a] # Unlimited /\ counts["syncs"] = 0 /\ counts["manual"] = 0 =>
            usage[a] + MaxTokens * Cardinality(Waiting(a))
              <= limits[a] + MaxTokens * Cardinality(OfAgent(a))

LEMMA TimesMonotone ==
    ASSUME NEW m \in Nat, NEW i \in Nat, NEW j \in Nat, i <= j
    PROVE  m * i <= m * j /\ m * i \in Nat /\ m * j \in Nat /\ m * (i + 1) = m * i + m
OBVIOUS

LEMMA WaitingIsFinite ==
    ASSUME NEW a
    PROVE  /\ IsFiniteSet(OfAgent(a)) /\ IsFiniteSet(Waiting(a))
           /\ Cardinality(OfAgent(a)) \in Nat /\ Cardinality(Waiting(a)) \in Nat
           /\ Cardinality(Waiting(a)) <= Cardinality(OfAgent(a))
<1>1. OfAgent(a) \subseteq Transcripts /\ Waiting(a) \subseteq OfAgent(a)
  BY DEF OfAgent, Waiting
<1>2. IsFiniteSet(OfAgent(a)) /\ IsFiniteSet(Waiting(a))
  BY <1>1, TranscriptAssumption, FS_Subset
<1> QED
  BY <1>1, <1>2, FS_Subset, FS_CardinalityType

LEMMA ReachStep == TypeOK /\ WithinReach /\ [Next]_vars => WithinReach'
<1> SUFFICES ASSUME TypeOK, WithinReach, [Next]_vars,
                    NEW a \in Agents, limits'[a] # Unlimited,
                    counts'["syncs"] = 0, counts'["manual"] = 0
             PROVE  usage'[a] + MaxTokens * Cardinality(Waiting(a)')
                      <= limits'[a] + MaxTokens * Cardinality(OfAgent(a))
  BY DEF WithinReach, OfAgent
<1> DEFINE W == Cardinality(Waiting(a))
           W1 == Cardinality(Waiting(a)')
           C == Cardinality(OfAgent(a))
           Same == limits' = limits /\ counts["syncs"] = 0 /\ counts["manual"] = 0
<1>a. a \in Scope /\ usage[a] \in Nat /\ MaxTokens \in Nat
  BY ExtensionBounds DEF TypeOK, Scope
<1>b. W \in Nat /\ C \in Nat /\ W <= C /\ IsFiniteSet(Waiting(a))
  BY WaitingIsFinite
<1>c. Waiting(a)' = {t \in OfAgent(a) : asked'[t] # None}
  BY DEF Waiting, OfAgent
<1>d. W1 \in Nat /\ W1 <= C
  <2>1. Waiting(a)' \subseteq OfAgent(a) /\ IsFiniteSet(OfAgent(a))
    BY <1>c, WaitingIsFinite
  <2> QED BY <2>1, FS_Subset, FS_CardinalityType
<1>e. Same => /\ limits[a] \in Nat
              /\ usage[a] + MaxTokens * W <= limits[a] + MaxTokens * C
  <2> HAVE Same
  <2>1. limits[a] \in Nat
    BY <1>a DEF TypeOK, Limit
  <2> QED BY <2>1 DEF WithinReach
<1>f. /\ MaxTokens * W \in Nat /\ MaxTokens * W1 \in Nat /\ MaxTokens * C \in Nat
      /\ MaxTokens * W1 <= MaxTokens * C
  BY <1>a, <1>b, <1>d, TimesMonotone
<1>g. /\ \A b \in DOMAIN Bounds : counts[b] \in Nat
      /\ \A b \in DOMAIN Bounds, c \in DOMAIN Bounds :
            Count(b) => counts'[c] = (IF b = c THEN counts[c] + 1 ELSE counts[c])
  BY DEF TypeOK, Count
<1>h. \A b \in DOMAIN Bounds : Count(b) =>
            b # "syncs" /\ b # "manual" /\ counts["syncs"] = 0 /\ counts["manual"] = 0
  BY <1>g, CountNames
\* A step that lets no new response be on its way and charges nothing.
<1>k. ASSUME Same, usage' = usage, Waiting(a)' \subseteq Waiting(a)
      PROVE  usage'[a] + MaxTokens * W1 <= limits'[a] + MaxTokens * C
  <2>1. W1 <= W
    BY <1>k, <1>b, FS_Subset
  <2>2. MaxTokens * W1 <= MaxTokens * W
    BY <2>1, <1>a, <1>b, <1>d, TimesMonotone
  <2> HIDE DEF W, W1, C
  <2> QED
    BY <1>k, <2>2, <1>a, <1>e, <1>f
<1>1. ASSUME NEW t \in Transcripts, NEW p \in Providers, NEW manual \in BOOLEAN,
             NEW n \in 0 .. MaxTokens, Request(t, p, manual, n)
      PROVE  usage'[a] + MaxTokens * W1 <= limits'[a] + MaxTokens * C
  <2>1. ~ manual /\ UNCHANGED <<limits, usage, counts>>
    BY <1>1, <1>h, CountNames DEF Request
  <2>2. CASE AgentOf[t] = a
    <3>1. ~ Exceeds({AgentOf[t], p}, n)
      BY <1>1, <2>1 DEF Request, Admits
    <3>2. limits[a] \in Nat
      BY <2>1, <1>e
    <3>3. usage[a] + n <= limits[a] /\ n \in Nat
      BY <2>1, <2>2, <3>1, <3>2, <1>a DEF Exceeds
    <3> HIDE DEF W1, C
    <3> QED
      BY <2>1, <3>2, <3>3, <1>a, <1>f
  <2>3. CASE AgentOf[t] # a
    <3>1. Waiting(a)' \subseteq Waiting(a)
      BY <1>1, <1>c, <2>3 DEF Request, Waiting, OfAgent, TypeOK
    <3> QED
      BY <2>1, <3>1, <1>k
  <2> QED
    BY <2>2, <2>3
<1>2. ASSUME NEW t \in Transcripts, NEW h \in Hooks, NEW out \in Outputs,
             NEW n \in 0 .. MaxTokens, Respond(t, h, out, n)
      PROVE  usage'[a] + MaxTokens * W1 <= limits'[a] + MaxTokens * C
  <2>1. Same
    BY <1>2, <1>h, CountNames DEF Respond
  <2>2. n \in Nat /\ n <= MaxTokens
    BY <1>a
  <2>3. CASE AgentOf[t] # a
    <3>1. CASE usage' = usage
      <4>1. Waiting(a)' \subseteq Waiting(a)
        BY <1>2, <1>c, <2>3 DEF Respond, Waiting, OfAgent, TypeOK
      <4> QED BY <4>1, <3>1, <2>1, <1>k
    <3>2. CASE usage' = Charge(usage, {AgentOf[t], open[t]}, n) /\ open[t] # None
      <4>1. open[t] \in Providers
        BY <3>2 DEF TypeOK
      <4>2. a \notin {AgentOf[t], open[t]}
        BY <4>1, <2>3, TranscriptAssumption
      <4>3. usage'[a] = usage[a]
        BY <3>2, <4>2, <1>a DEF Charge
      <4>4. Waiting(a)' \subseteq Waiting(a)
        BY <1>2, <1>c, <2>3 DEF Respond, Waiting, OfAgent, TypeOK
      <4>5. W1 <= W
        BY <4>4, <1>b, FS_Subset
      <4>6. MaxTokens * W1 <= MaxTokens * W
        BY <4>5, <1>a, <1>b, <1>d, TimesMonotone
      <4> HIDE DEF W, W1, C
      <4> QED
        BY <2>1, <4>3, <4>6, <1>a, <1>e, <1>f
    <3> QED
      BY <1>2, <3>1, <3>2 DEF Respond, Consume
  <2>4. CASE AgentOf[t] = a
    <3>1. usage'[a] <= usage[a] + n /\ usage'[a] \in Nat
      BY <1>2, <1>a, <2>2 DEF Respond, Consume, Charge
    <3>2. t \in Waiting(a)
      BY <1>2, <2>4 DEF Respond, Waiting, OfAgent
    <3>3. Waiting(a)' = Waiting(a) \ {t}
      BY <1>2, <1>c DEF Respond, Waiting, OfAgent, TypeOK
    <3>4. W1 = W - 1
      BY <3>2, <3>3, <1>b, FS_RemoveElement
    <3>5. MaxTokens * W = MaxTokens * W1 + MaxTokens
      BY <3>4, <1>a, <1>b, <1>d, TimesMonotone
    <3> HIDE DEF W, W1, C
    <3> QED
      BY <2>1, <2>2, <3>1, <3>5, <1>a, <1>e, <1>f
  <2> QED
    BY <2>3, <2>4
<1>3. ASSUME NEW t \in Transcripts, Dropped(t)
      PROVE  Same /\ usage' = usage /\ Waiting(a)' \subseteq Waiting(a)
  BY <1>3, <1>c DEF Dropped, budgets, Waiting, OfAgent, TypeOK
<1>4. ASSUME NEW t \in Transcripts, Resume(t)
      PROVE  Same /\ usage' = usage /\ Waiting(a)' \subseteq Waiting(a)
  BY <1>4, <1>c, <1>h, CountNames DEF Resume, Waiting
<1>5. ASSUME NEW h \in Hooks, HookSteps(h)
      PROVE  Same /\ usage' = usage /\ Waiting(a)' \subseteq Waiting(a)
  BY <1>5, <1>c
  DEF HookSteps, Escalate, EscalateAgain, Researched, Observe, Park, Recovered,
      budgets, Waiting
<1>6. ASSUME NEW p \in Policies, Sync(p) PROVE FALSE
  BY <1>6, <1>h, CountNames DEF Sync
<1>7. CASE UNCHANGED vars
  <2>1. Same /\ usage' = usage /\ Waiting(a)' \subseteq Waiting(a)
    BY <1>7, <1>c DEF vars, Waiting
  <2> QED BY <2>1, <1>k
<1> QED
  BY <1>1, <1>2, <1>3, <1>4, <1>5, <1>6, <1>7, <1>k DEF Next

\* Before a policy changes and without the user's own requests, an agent's usage
\* passes its limit by at most one response of each of its transcripts.
THEOREM AgentOverrunHolds == Spec => []AgentOverrun
<1>1. Init => WithinReach
  <2> SUFFICES ASSUME Init, NEW a \in Agents, limits[a] # Unlimited
               PROVE  usage[a] + MaxTokens * Cardinality(Waiting(a))
                        <= limits[a] + MaxTokens * Cardinality(OfAgent(a))
    BY DEF WithinReach
  <2>1. limits[a] \in Nat /\ usage[a] = 0
    BY PolicyAssumption DEF Init, Scope, Limit
  <2>2. Waiting(a) = {}
    BY DEF Init, Waiting, OfAgent
  <2>3. Cardinality(Waiting(a)) = 0
    BY <2>2, FS_EmptySet
  <2>4. MaxTokens \in Nat /\ Cardinality(OfAgent(a)) \in Nat
    BY ExtensionBounds, WaitingIsFinite
  <2>5. MaxTokens * 0 = 0 /\ MaxTokens * Cardinality(OfAgent(a)) \in Nat
    BY <2>4
  <2> QED
    BY <2>1, <2>3, <2>5
<1>2. TypeOK /\ WithinReach => AgentOverrun
  <2> SUFFICES ASSUME TypeOK, WithinReach, NEW a \in Agents, limits[a] # Unlimited,
                      counts.syncs = 0, counts.manual = 0
               PROVE  usage[a] <= limits[a] + MaxTokens * Cardinality(OfAgent(a))
    BY DEF AgentOverrun, OfAgent
  <2>1. usage[a] + MaxTokens * Cardinality(Waiting(a))
          <= limits[a] + MaxTokens * Cardinality(OfAgent(a))
    BY DEF WithinReach
  <2>2. MaxTokens \in Nat /\ Cardinality(OfAgent(a)) \in Nat /\ Cardinality(Waiting(a)) \in Nat
    BY ExtensionBounds, WaitingIsFinite
  <2>3. usage[a] \in Nat /\ limits[a] \in Nat
    BY DEF TypeOK, Scope, Limit
  <2>4. MaxTokens * Cardinality(Waiting(a)) \in Nat /\ MaxTokens * Cardinality(OfAgent(a)) \in Nat
    BY <2>2, TimesMonotone
  <2> QED
    BY <2>1, <2>3, <2>4
<1>3. Spec => []WithinReach
  BY <1>1, ReachStep, TypeCorrect, PTL DEF Spec
<1> QED
  BY <1>2, <1>3, TypeCorrect, PTL
=============================================================================
