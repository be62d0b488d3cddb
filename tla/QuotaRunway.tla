----------------------------- MODULE QuotaRunway -----------------------------
(***************************************************************************)
(* The runway of a controller: quota readings, usage events and proxy      *)
(* receipts are durable rows; GET /v1/runway runs a loop that loads the    *)
(* rows it has not seen into memory, derives one estimate for each account *)
(* and persists the alarms that came up (telemetry/engine.py, controller/  *)
(* loops).  A failure of the store opens the loop's circuit breaker, which *)
(* nothing closes; a restart forgets all of the memory.                    *)
(*                                                                         *)
(* A label is a provider with an account.  Requests do not interleave: the *)
(* handlers have no await and run on one thread.                           *)
(***************************************************************************)
EXTENDS Lists, Integers, FiniteSets, FiniteSetsExt, Functions, Bags

CONSTANTS
    Label,         \* accounts
    Quotas,        \* quota readings a collector may post
    Usages,        \* usage events of OMP, the ones that do not parse included
    Receipts,      \* receipts of the proxy, the same
    Silence,       \* the age above which a reading is silent
    MaxTime,       \* bound: the clock
    MaxRows,       \* bound: rows
    MaxLives,      \* bound: starts of the controller
    MaxGetFaults,  \* bound: evaluations that fail
    Nothing        \* no value

Classes == <<"consumption-estimated", "delayed-dashboard", "provider-derived">>
Spend == [label : Label, amount : Nat, time : Nat,
          attribution : {"direct", "manual", "proxy", "unknown"}]

ASSUME RunwayAssumption ==
    /\ Quotas \subseteq [label : Label, used : Nat, unit : {"tokens", "percent"}, reset : Nat,
                         class : {"unknown"} \cup Range(Classes), fresh : Nat]
    /\ Usages \cup Receipts \subseteq Spend
    /\ {Silence, MaxTime, MaxRows, MaxLives, MaxGetFaults} \subseteq Nat
    /\ Nothing \notin Nat \cup Quotas

VARIABLES
    rows,     \* the durable rows of each kind, in the order of their arrival
    alarms,   \* the alarms persisted, each with the life of the controller
    clock,
    life,     \* how many times the controller was started
    loop,     \* the memory of the loop: QuotaTelemetry and what it has seen
    served,   \* Controller._runway, by label
    asked,    \* history: nothing has happened since the last GET
    getFaults \* evaluations that failed so far

runwayVars == <<rows, alarms, clock, life, loop, served, asked, getFaults>>

Rows == [quotas : Seq(Quotas), usages : Seq(Usages), receipts : Seq(Receipts)]

NewLoop ==
    [records |-> <<>>, spend |-> <<>>, seenQuota |-> {}, seenEvents |-> 0, seenReceipts |-> {},
     raised |-> {}, persisted |-> {}, open |-> FALSE]

RunwayInit ==
    /\ rows = [quotas |-> <<>>, usages |-> <<>>, receipts |-> <<>>]
    /\ alarms = EmptyBag
    /\ clock = 0
    /\ life = 1
    /\ loop = NewLoop
    /\ served = <<>>
    /\ asked = FALSE
    /\ getFaults = 0

-----------------------------------------------------------------------------
(* Loading *)

\* Add to a sequence the values that were not seen, each of them once.
Unseen(new, seen) ==
    FoldLeft(LAMBDA found, v : IF v \in seen \/ Contains(found, v) THEN found ELSE Append(found, v),
             <<>>, new)

\* A usage event is OMP's own or is not accepted, a receipt the proxy's.
Valid(s, kinds) == s.attribution \in kinds
Accepted(spends, kinds) == Only(spends, {s \in Spend : Valid(s, kinds)})
OmpKinds == {"direct", "manual"}
ProxyKinds == {"proxy"}

\* Mutant: a receipt counts again at each load.
LoadedAgain(l) ==
    LET usages == SubSeq(rows.usages, l.seenEvents + 1, Len(rows.usages))
        accepted == Accepted(usages, OmpKinds) \o Accepted(rows.receipts, ProxyKinds)
    IN  [l EXCEPT !.records = @ \o Unseen(rows.quotas, l.seenQuota),
                  !.seenQuota = @ \cup ToSet(rows.quotas),
                  !.spend = @ \o accepted,
                  !.seenEvents = Len(rows.usages),
                  !.seenReceipts = @ \cup ToSet(rows.receipts)]

\* Readings and receipts are known by their content, events by their row.
Loaded(l) ==
    LET usages == SubSeq(rows.usages, l.seenEvents + 1, Len(rows.usages))
        receipts == Unseen(rows.receipts, l.seenReceipts)
        accepted == Accepted(usages, OmpKinds) \o Accepted(receipts, ProxyKinds)
    IN  [l EXCEPT !.records = @ \o Unseen(rows.quotas, l.seenQuota),
                  !.seenQuota = @ \cup ToSet(rows.quotas),
                  !.spend = @ \o accepted,
                  !.seenEvents = Len(rows.usages),
                  !.seenReceipts = @ \cup ToSet(rows.receipts)]

\* What the load reports at once, without an event of the telemetry.
\* A proxy receipt of another source is left out: the telemetry does not count
\* it either, and raises an event of its own.
Invalid(l) ==
    {<<"omp", i>> : i \in {j \in l.seenEvents + 1 .. Len(rows.usages) :
                            ~Valid(rows.usages[j], OmpKinds)}}
    \cup {<<"proxy", s>> : s \in {r \in ToSet(rows.receipts) \ l.seenReceipts :
                            ~Valid(r, ProxyKinds)}}

-----------------------------------------------------------------------------
(* QuotaTelemetry *)

\* The records of an account that are not silent, by their positions.
FreshRecords(l, label) ==
    {i \in DOMAIN l.records :
        l.records[i].label = label /\ clock - l.records[i].fresh <= Silence}

\* The first of the freshest.
Latest(l, positions) ==
    CHOOSE i \in positions : \A j \in positions :
        \/ l.records[i].fresh > l.records[j].fresh
        \/ l.records[i].fresh = l.records[j].fresh /\ i <= j

OfClass(l, positions, class) == {i \in positions : l.records[i].class = class}

\* The latest record of the best class there is.
SelectRecord(l, fresh) ==
    LET ranks == {k \in DOMAIN Classes : OfClass(l, fresh, Classes[k]) # {}}
    IN  IF ranks = {} THEN Nothing
        ELSE l.records[Latest(l, OfClass(l, fresh, Classes[Max(ranks)]))]

Matching(label, kind, after) ==
    {s \in Spend : s.label = label /\ s.attribution = kind /\ s.time > after}

SpendTotal(l, label, kind, after) ==
    FoldLeft(LAMBDA n, s : IF s \in Matching(label, kind, after) THEN n + s.amount ELSE n,
             0, l.spend)

Estimate(class, used, unit, fresh, reset, direct, manual, proxy) ==
    [class |-> class, used |-> used, unit |-> unit, fresh |-> fresh, reset |-> reset,
     direct |-> direct, manual |-> manual, proxy |-> proxy,
     projected |-> IF unit = "tokens" THEN used + direct + manual + proxy ELSE Nothing]

Totals(l, label, after, class, used, unit, fresh, reset) ==
    Estimate(class, used, unit, fresh, reset,
             SpendTotal(l, label, "direct", after), SpendTotal(l, label, "manual", after),
             SpendTotal(l, label, "proxy", after))

Runway(l, label) ==
    LET q == SelectRecord(l, FreshRecords(l, label))
    IN  IF q = Nothing
        THEN Totals(l, label, -1, "unknown", Nothing, "unknown", Nothing, Nothing)
        ELSE Totals(l, label, q.fresh, q.class, q.used, q.unit, q.fresh, q.reset)

\* The values on which the latest readings of two source classes disagree.
Conflict(l, fresh) ==
    LET classes == {l.records[i].class : i \in fresh}
        latest == {Latest(l, OfClass(l, fresh, class)) : class \in classes}
        values == {[used |-> l.records[i].used, unit |-> l.records[i].unit,
                    reset |-> l.records[i].reset] : i \in latest}
    IN  IF Cardinality(values) > 1 THEN values ELSE {}

\* The keys of the events of one account: each is emitted once in a life.
KeysOf(l, label) ==
    LET fresh == FreshRecords(l, label)
    IN  {<<"conflict", label, v>> : v \in {Conflict(l, fresh)} \ {{}}}
        \cup {<<"unknown-source", label>> : i \in OfClass(l, fresh, "unknown")}
        \cup IF fresh = {} THEN {<<"silent", label>>} ELSE {}

Known(l) == {q.label : q \in ToSet(l.records)} \cup {s.label : s \in ToSet(l.spend)}

\* Mutant: the events that are persisted are not counted.
EvaluatedUncounted(l) ==
    [Loaded(l) EXCEPT !.raised = @ \cup UNION {KeysOf(Loaded(l), label) : label \in Known(Loaded(l))}]

\* The memory after an evaluation.
Evaluated(l) ==
    LET loaded == Loaded(l)
        raised == loaded.raised \cup UNION {KeysOf(loaded, label) : label \in Known(loaded)}
    IN  [loaded EXCEPT !.raised = raised, !.persisted = raised]

\* The alarms an evaluation persists, one transaction each.
News(l) == {[life |-> life, key |-> k] : k \in Invalid(l) \cup (Evaluated(l).raised \ l.persisted)}

Persist(news) == alarms' = alarms (+) SetToBag(news)

-----------------------------------------------------------------------------
(* Steps *)

Post(kind, row) ==
    /\ Len(rows.quotas) + Len(rows.usages) + Len(rows.receipts) < MaxRows
    /\ rows' = [rows EXCEPT ![kind] = Append(@, row)]
    /\ asked' = FALSE
    /\ UNCHANGED <<alarms, clock, life, loop, served, getFaults>>

\* GET /v1/runway.
Get ==
    /\ ~loop.open
    /\ loop' = Evaluated(loop)
    /\ Persist(News(loop))
    /\ served' = [label \in Known(loop') |-> Runway(loop', label)]
    /\ asked' = TRUE
    /\ UNCHANGED <<rows, clock, life, getFaults>>

\* The store fails during the evaluation, with some of the alarms persisted.
GetFails ==
    /\ ~loop.open
    /\ getFaults < MaxGetFaults
    /\ getFaults' = getFaults + 1
    /\ \E news \in SUBSET News(loop) : Persist(news)
    /\ loop' = [loop EXCEPT !.open = TRUE]
    /\ asked' = TRUE
    /\ UNCHANGED <<rows, clock, life, served>>

\* An open breaker: what was served last is served again.
GetFrozen ==
    /\ loop.open
    /\ asked' = TRUE
    /\ UNCHANGED <<rows, alarms, clock, life, loop, served, getFaults>>

\* The controller is started again, be it killed between two alarms.
RestartController ==
    /\ life < MaxLives
    /\ life' = life + 1
    /\ \E news \in IF loop.open THEN {{}} ELSE SUBSET News(loop) : Persist(news)
    /\ loop' = NewLoop
    /\ served' = <<>>
    /\ asked' = FALSE
    /\ UNCHANGED <<rows, clock, getFaults>>

Passes ==
    /\ clock < MaxTime
    /\ clock' = clock + 1
    /\ asked' = FALSE
    /\ UNCHANGED <<rows, alarms, life, loop, served, getFaults>>

RunwayNext ==
    \/ \E q \in Quotas : Post("quotas", q)
    \/ \E s \in Usages : Post("usages", s)
    \/ \E s \in Receipts : Post("receipts", s)
    \/ Get \/ GetFails \/ GetFrozen
    \/ RestartController
    \/ Passes

RunwaySpec == RunwayInit /\ [][RunwayNext]_runwayVars

-----------------------------------------------------------------------------
(* Properties *)

Estimates ==
    [class : {"unknown"} \cup Range(Classes), used : Nat \cup {Nothing},
     unit : {"tokens", "percent", "unknown"}, fresh : Nat \cup {Nothing},
     reset : Nat \cup {Nothing}, direct : Nat, manual : Nat, proxy : Nat,
     projected : Nat \cup {Nothing}]

RunwayTypeOK ==
    /\ rows \in Rows
    /\ IsABag(alarms)
    /\ clock \in Nat
    /\ life \in Nat
    /\ loop.records \in Seq(Quotas)
    /\ loop.spend \in Seq(Spend)
    /\ loop.seenQuota \subseteq Quotas
    /\ loop.seenEvents \in 0 .. Len(rows.usages)
    /\ loop.seenReceipts \subseteq Receipts
    /\ loop.persisted \subseteq loop.raised
    /\ loop.open \in BOOLEAN
    /\ DOMAIN served \subseteq Label
    /\ \A label \in DOMAIN served : served[label] \in Estimates
    /\ asked \in BOOLEAN
    /\ getFaults \in 0 .. MaxGetFaults

\* The readings that are fresh and say where they come from.
Sourced(label) ==
    {i \in DOMAIN rows.quotas :
        LET q == rows.quotas[i]
        IN  q.label = label /\ clock - q.fresh <= Silence /\ q.class # "unknown"}

RankOf(q) == CHOOSE k \in DOMAIN Classes : Classes[k] = q.class

\* A better source, then a fresher reading, then the one that came first.
Preferred(i, j) ==
    LET q == rows.quotas[i]
        r == rows.quotas[j]
    IN  \/ RankOf(q) > RankOf(r)
        \/ RankOf(q) = RankOf(r) /\ q.fresh > r.fresh
        \/ RankOf(q) = RankOf(r) /\ q.fresh = r.fresh /\ i <= j

\* Every usage row counts once, and every receipt that differs from the others.
Used(label, kind, after) ==
    SumFunction([i \in {i \in DOMAIN rows.usages :
                            LET s == rows.usages[i]
                            IN  s.label = label /\ s.attribution = kind /\ s.time > after}
                 |-> rows.usages[i].amount])

Proxied(label, after) ==
    SumFunction([s \in {s \in ToSet(rows.receipts) :
                            s.label = label /\ s.attribution = "proxy" /\ s.time > after}
                 |-> s.amount])

Counted(label, after, class, used, unit, fresh, reset) ==
    Estimate(class, used, unit, fresh, reset, Used(label, "direct", after),
             Used(label, "manual", after), Proxied(label, after))

Seen ==
    {q.label : q \in ToSet(rows.quotas)}
    \cup {s.label : s \in {u \in ToSet(rows.usages) : Valid(u, OmpKinds)}
                        \cup {u \in ToSet(rows.receipts) : Valid(u, ProxyKinds)}}

\* What GET serves is the estimate of the durable rows of that moment, as if
\* computed from nothing: however the rows were spread over earlier loads and
\* restarts, no spend is counted twice or lost, a silent account is unknown
\* and the best source wins.  An open breaker is exempt: it serves the past
\* (RunwayLoop._evaluate, QuotaTelemetry.runway).
ServedIsCurrent ==
    asked /\ ~loop.open =>
        /\ DOMAIN served = Seen
        /\ \A label \in Seen :
            \/ /\ Sourced(label) = {}
               /\ served[label] =
                    Counted(label, -1, "unknown", Nothing, "unknown", Nothing, Nothing)
            \/ \E i \in Sourced(label) :
                /\ \A j \in Sourced(label) : Preferred(i, j)
                /\ LET q == rows.quotas[i]
                   IN  served[label] =
                        Counted(label, q.fresh, q.class, q.used, q.unit, q.fresh, q.reset)

\* Between two starts of the controller an alarm is persisted at most once,
\* however often GET is asked and wherever the store fails, and an account
\* without a fresh reading is served only after its alarm is durable
\* (_emit_once, _persist_new_events, CircuitBreaker).
AlarmsOnce ==
    /\ \A a \in BagToSet(alarms) : alarms[a] = 1
    /\ asked /\ ~loop.open =>
        \A label \in Seen :
            (\A i \in DOMAIN rows.quotas :
                rows.quotas[i].label = label =>
                    clock - rows.quotas[i].fresh > Silence)
            => [life |-> life, key |-> <<"silent", label>>] \in BagToSet(alarms)
=============================================================================
