---------------------------- MODULE RouteCapacity ----------------------------
(***************************************************************************)
(* Rendering of the managed region of LiteLLM's configuration              *)
(* (adapters/litellm/core.py): the free slots of every engine that may     *)
(* serve are shared among its automatic routes, the reserved ones among    *)
(* the interactive routes and the rest among the others, by weight and     *)
(* largest remainder.  RouterConfig is about what is done with the result. *)
(*                                                                         *)
(* Aliases are numbers, in the order of their names.                       *)
(***************************************************************************)
EXTENDS Integers, Sequences, FiniteSets, FiniteSetsExt, SequencesExt, Functions

CONSTANTS
    Routes,      \* routes a policy may list
    Hosts,       \* ids of the engines of the policy
    EngineFacts, \* what a policy may say of an engine
    MaxRoutes    \* bound: routes of a policy

ASSUME RoutesAssumption ==
    /\ \A r \in Routes : r.alias \in Nat /\ r.weight \in Nat \ {0}
                         /\ {r.manual, r.interactive} \subseteq BOOLEAN
    /\ \A g \in EngineFacts :   \* PhysicalEngine.validate_capacity
            /\ {g.slots, g.active, g.reserved} \subseteq Nat
            /\ g.active <= g.slots /\ g.reserved <= g.slots
            /\ g.health \in {"healthy", "degraded", "unhealthy", "unknown"}
    /\ MaxRoutes \in Nat

VARIABLES
    engines,  \* the engines of the policy, by id
    routes,   \* its routes
    outcome,  \* of the rendering, once it took place
    region    \* its entries: the slots of each alias on each engine

routeVars == <<engines, routes, outcome, region>>

RoutesInit ==
    /\ engines \in [Hosts -> EngineFacts]
    /\ routes = <<>>
    /\ outcome = "none"
    /\ region = {}

-----------------------------------------------------------------------------
(* render_managed_region *)

Serves(g) == g.state = "active" /\ g.health \in {"healthy", "degraded"}

Automatic(h) == {r \in ToSet(routes) : ~r.manual /\ r.engine = h}

Weight(group) == SumFunction([r \in group |-> r.weight])

\* Mutant: the slots left over go to the first aliases.
SplitByAlias(capacity, group) ==
    LET base == [r \in group |-> (capacity * r.weight) \div Weight(group)]
        left == capacity - SumFunction(base)
        Ahead(r) == {q \in group : q.alias < r.alias}
    IN  [r \in group |-> base[r] + IF Cardinality(Ahead(r)) < left THEN 1 ELSE 0]

\* _weighted_split: the slots left over go to the largest remainders.
Split(capacity, group) ==
    LET base == [r \in group |-> (capacity * r.weight) \div Weight(group)]
        rest == [r \in group |-> (capacity * r.weight) % Weight(group)]
        left == capacity - SumFunction(base)
        Ahead(r) == {q \in group : \/ rest[q] > rest[r]
                                   \/ rest[q] = rest[r] /\ q.alias < r.alias}
    IN  [r \in group |-> base[r] + IF Cardinality(Ahead(r)) < left THEN 1 ELSE 0]

Available(g) == g.slots - g.active
ForInteractive(g) == Min({Available(g), g.reserved})

\* _engine_distribution, over routes that differ in their alias.
Distribution(g, group) ==
    LET interactive == {r \in group : r.interactive}
        serving == group \ interactive
        first == Split(ForInteractive(g), interactive)
        second == Split(Available(g) - ForInteractive(g), serving)
    IN  [r \in group |-> IF r.interactive THEN first[r] ELSE second[r]]

Serving(h) == Serves(engines[h]) /\ Automatic(h) # {}
SlotsOf(h) == Distribution(engines[h], Automatic(h))

\* An automatic route without an engine, one alias twice on an engine that
\* serves, or a route to render of an engine without an address.
Unrenderable ==
    \/ \E i \in DOMAIN routes : ~routes[i].manual /\ routes[i].engine \notin Hosts
    \/ \E h \in Hosts :
        /\ Serving(h)
        /\ \/ \E i, j \in DOMAIN routes :
                /\ i # j /\ {routes[i], routes[j]} \subseteq Automatic(h)
                /\ routes[i].alias = routes[j].alias
           \/ ~engines[h].address /\ \E r \in Automatic(h) : SlotsOf(h)[r] > 0

\* A route without a slot is left out.
Rendered ==
    UNION {{[engine |-> h, alias |-> r.alias, slots |-> SlotsOf(h)[r]] :
                r \in {q \in Automatic(h) : SlotsOf(h)[q] > 0}} :
           h \in {g \in Hosts : Serving(g)}}

Render ==
    /\ outcome = "none"
    /\ \/ Unrenderable /\ outcome' = "error" /\ UNCHANGED region
       \/ ~Unrenderable /\ outcome' = "rendered" /\ region' = Rendered
    /\ UNCHANGED <<engines, routes>>

\* The policy lists one route more.
ListRoute(r) ==
    /\ outcome = "none"
    /\ Len(routes) < MaxRoutes
    /\ routes' = Append(routes, r)
    /\ UNCHANGED <<engines, outcome, region>>

RoutesNext == Render \/ \E r \in Routes : ListRoute(r)

RoutesSpec == RoutesInit /\ [][RoutesNext]_routeVars

-----------------------------------------------------------------------------
(* Properties *)

RouteEntry ==
    [engine : Hosts, alias : {r.alias : r \in Routes}, slots : Nat \ {0}]

RoutesTypeOK ==
    /\ engines \in [Hosts -> EngineFacts]
    /\ routes \in Seq(Routes)
    /\ outcome \in {"none", "error", "rendered"}
    /\ region \subseteq RouteEntry

Group(h, interactive) ==
    {r \in Routes : /\ \E i \in DOMAIN routes : routes[i] = r
                    /\ r.engine = h /\ ~r.manual /\ r.interactive = interactive}

\* The slots the region gives a route.
Given(h, r) ==
    SumFunction([entry \in {e \in region : e.engine = h /\ e.alias = r.alias} |-> entry.slots])

\* A fair share is all of the capacity, none of it twice; nobody is a whole
\* slot away from the proportion of its weight, and one that was rounded up
\* was not further from the next slot than one that was rounded down.
Fair(h, group, capacity) ==
    LET total == SumFunction([r \in group |-> r.weight])
        Error(r) == Given(h, r) * total - capacity * r.weight
    IN  /\ group # {} => SumFunction([r \in group |-> Given(h, r)]) = capacity
        /\ \A r \in group : -total < Error(r) /\ Error(r) < total
        /\ \A q, r \in group : Error(q) > 0 /\ Error(r) <= 0 => Error(q) - Error(r) <= total

\* Of the slots an engine that serves has free, a region gives the interactive
\* routes the reserve and the others the rest, once and to the last slot; a part
\* that has no routes is given to nobody, the reserve of an engine without
\* interactive routes too, and an engine that does not serve has no route
\* (_weighted_split, _engine_distribution, render_managed_region).
CapacityShared ==
    outcome = "rendered" =>
        /\ \A h \in Hosts :
            LET g == engines[h]
                free == g.slots - g.active
                kept == IF free < g.reserved THEN free ELSE g.reserved
            IN  IF g.state = "active" /\ g.health \notin {"unhealthy", "unknown"}
                THEN /\ Fair(h, Group(h, TRUE), kept)
                     /\ Fair(h, Group(h, FALSE), free - kept)
                ELSE \A entry \in region : entry.engine # h
        /\ \A entry \in region : entry.engine \in Hosts
=============================================================================
