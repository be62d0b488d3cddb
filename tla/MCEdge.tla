------------------------------- MODULE MCEdge -------------------------------
(***************************************************************************)
(* Small instances, for TLC, of the components around the controllers that *)
(* have no step in common.  The initial state says which of them moves;    *)
(* the others rest in a first state, so their states add up instead of     *)
(* multiplying.                                                            *)
(***************************************************************************)
EXTENDS NativeSelection, QuotaRunway, HostAgent, OperatorCommand, PolicyTrust, RouteCapacity, TLC

-----------------------------------------------------------------------------
(* Selection: a role with four rungs, and one the policy leaves out *)

CONSTANTS role, other, metered, cloud, plan, local, acct, acct2

Entry(mode, account, expires, observable) ==
    [available |-> TRUE, expires |-> expires, mode |-> mode,
     observable |-> observable, account |-> account]

MCPolicy ==
    [rungs |-> role :> <<local, metered, cloud, plan>>,
     modes |-> role :> {"cloud"},
     catalog |-> metered :> Entry("cloud", acct, 9, TRUE)
              @@ cloud :> Entry("cloud", acct2, 3, TRUE)
              @@ plan :> Entry("cloud", acct2, 2, FALSE)
              @@ local :> Entry("strict-local", acct, 9, FALSE),
     promoted |-> {metered, cloud, plan, local},
     unit |-> "tokens", maxAge |-> 3, allowed |-> acct :> 2 @@ acct2 :> 2]

InUnit(account, time, used, unit) ==
    [account |-> account, time |-> time, unit |-> unit, reported |-> TRUE, used |-> used]
Measured(account, time, used) == InUnit(account, time, used, "tokens")

\* Room everywhere; two readings of one time that differ; a fresher one that
\* allows beside one that gives no use; only old ones; and readings of another
\* unit, alone and below one that counts.
MCSituations ==
    {[runway |-> <<Measured(acct, 2, 1), Measured(acct2, 2, 1)>>, now |-> 2],
     [runway |-> <<Measured(acct, 2, 1), Measured(acct, 2, 4), Measured(acct2, 2, 4)>>, now |-> 2],
     [runway |-> <<Measured(acct, 1, 3), Measured(acct, 2, 1),
                   [Measured(acct2, 2, 1) EXCEPT !.reported = FALSE]>>, now |-> 3],
     [runway |-> <<Measured(acct, 1, 1), Measured(acct2, 0, 1)>>, now |-> 7],
     [runway |-> <<InUnit(acct, 2, 1, "credits"), InUnit(acct2, 2, 0, "credits"),
                   Measured(acct2, 2, 1)>>, now |-> 2]}

-----------------------------------------------------------------------------
(* Runway: one account, readings that disagree and one of no source *)

Quota(class, used, time) ==
    [label |-> acct, used |-> used, unit |-> "tokens", reset |-> 9, class |-> class, fresh |-> time]
Usage(kind, amount, time) ==
    [label |-> acct, amount |-> amount, time |-> time, attribution |-> kind]

MCQuotas ==
    {Quota("provider-derived", 5, 1), Quota("delayed-dashboard", 6, 1),
     Quota("delayed-dashboard", 7, 1), Quota("unknown", 5, 0)}
MCUsages == {Usage("direct", 1, 1), Usage("manual", 2, 2), Usage("unknown", 4, 2)}
MCReceipts == {Usage("proxy", 8, 2), Usage("direct", 16, 2)}

-----------------------------------------------------------------------------
(* Agent: an engine with two collectors, and one with its own *)

CONSTANTS engine, engine2

MCCollectors == <<engine, engine, engine2>>

\* All answer; one fails, or all of an engine, or all; one is overloaded.
MCRounds ==
    {<<1, 1, 1>>, <<-1, 1, 1>>, <<1, 1, -1>>, <<-1, -1, 1>>, <<-1, -1, -1>>, <<1, 2, 1>>, <<1, 1, 2>>}

-----------------------------------------------------------------------------
(* Trust: two envelopes of one sequence, a later one, and one of another key *)

CONSTANTS key, key2, key3

Offer(signer, seq, id) == [key |-> signer, seq |-> seq, id |-> id]
MCOffered == {Offer(key, 1, 1), Offer(key, 1, 2), Offer(key, 2, 1), Offer(key2, 1, 1)}

-----------------------------------------------------------------------------
(* Routes: three aliases, each of any weight and kind, on one engine *)

CONSTANT gone

Route(alias, weight, interactive) ==
    [alias |-> alias, engine |-> engine, weight |-> weight, manual |-> FALSE,
     interactive |-> interactive]
MCRoutes ==
    {Route(alias, weight, interactive) : alias \in 1 .. 3, weight \in {1, 2}, interactive \in BOOLEAN}
    \cup {[Route(1, 1, FALSE) EXCEPT !.manual = TRUE], [Route(2, 1, FALSE) EXCEPT !.engine = gone]}

Facts(slots, active, reserved, state, health, address) ==
    [slots |-> slots, active |-> active, reserved |-> reserved, state |-> state,
     health |-> health, address |-> address]
MCEngineFacts ==
    {Facts(4, active, reserved, "active", "healthy", TRUE) : active \in 0 .. 4, reserved \in 0 .. 2}
    \cup {Facts(2, 0, 1, "active", health, TRUE) : health \in {"degraded", "unknown"}}
    \cup {Facts(2, 0, 1, "draining", "healthy", TRUE), Facts(2, 0, 1, "active", "healthy", FALSE)}

-----------------------------------------------------------------------------
VARIABLE part   \* the component that moves

edgeVars == <<part, ompVars, runwayVars, agentVars, operatorVars, trustVars, routeVars>>

\* Only the part that moves starts in more than one state.
EdgeInit ==
    /\ part \in {"selection", "runway", "agent", "operator", "trust", "routes"}
    /\ SelectionInit /\ RunwayInit /\ AgentInit /\ OperatorInit /\ TrustInit
    /\ RoutesInit
    /\ part = "routes" \/ engines = [h \in Hosts |-> CHOOSE g \in EngineFacts : TRUE]

EdgeNext ==
    /\ UNCHANGED part
    /\ \/ /\ part = "selection" /\ SelectionNext
          /\ UNCHANGED <<runwayVars, agentVars, operatorVars, trustVars, routeVars>>
       \/ /\ part = "runway" /\ RunwayNext
          /\ UNCHANGED <<ompVars, agentVars, operatorVars, trustVars, routeVars>>
       \/ /\ part = "agent" /\ AgentNext
          /\ UNCHANGED <<ompVars, runwayVars, operatorVars, trustVars, routeVars>>
       \/ /\ part = "operator" /\ OperatorNext
          /\ UNCHANGED <<ompVars, runwayVars, agentVars, trustVars, routeVars>>
       \/ /\ part = "trust" /\ TrustNext
          /\ UNCHANGED <<ompVars, runwayVars, agentVars, operatorVars, routeVars>>
       \/ /\ part = "routes" /\ RoutesNext
          /\ UNCHANGED <<ompVars, runwayVars, agentVars, operatorVars, trustVars>>

EdgeSpec == EdgeInit /\ [][EdgeNext]_edgeVars

\* The type invariant of the part that moves: the others are where they began.
EdgeTypeOK ==
    CASE part = "selection" -> SelectionTypeOK
      [] part = "runway" -> RunwayTypeOK
      [] part = "agent" -> AgentTypeOK
      [] part = "operator" -> OperatorTypeOK
      [] part = "trust" -> TrustTypeOK
      [] part = "routes" -> RoutesTypeOK
=============================================================================
